---- MODULE Spec2Model ----
(***************************************************************************)
(* A model of the fir AST interpreter (src/src/interpreter.rs) and of its  *)
(* record-shape collector (src/src/record_collector.rs).                   *)
(*                                                                         *)
(* The program under interpretation is the variable `ast` (a list of      *)
(* top-level declarations).  Init is the state of `run` after Pgm::new and *)
(* the allocation of the input string; every action is one iteration of    *)
(* the statement loop of `exec` on the body of `main`.  eval, exec,        *)
(* try_bind_pat and the calls they make are recursive operators that       *)
(* thread the heap and the local environment exactly as the code does.     *)
(***************************************************************************)
EXTENDS Integers, Sequences, FiniteSets, TLC

VARIABLES ast, pgm, heap, locals, pc, return_value, status, result, trace, debug

vars == <<ast, pgm, heap, locals, pc, return_value, status, result, trace, debug>>

(***************************************************************************)
(* Option<T>, maps, sequences                                              *)
(***************************************************************************)
None == <<>>
Some(x) == <<x>>
IsSome(o) == o # <<>>
Unwrap(o) == o[1]

EmptyMap == [n \in {} |-> 0]
MapInsert(m, k, v) == [n \in DOMAIN m \cup {k} |-> IF n = k THEN v ELSE m[n]]
MapRemove(m, k) == [n \in DOMAIN m \ {k} |-> m[n]]
\* Map::extend: the entries of m2 overwrite those of m1.
MapExtend(m1, m2) == [n \in DOMAIN m1 \cup DOMAIN m2 |-> IF n \in DOMAIN m2 THEN m2[n] ELSE m1[n]]

Range(s) == {s[i] : i \in DOMAIN s}

(***************************************************************************)
(* Primitive tags (generate_tags!)                                         *)
(***************************************************************************)
I32_TYPE_TAG == 0
STR_TYPE_TAG == 1
STR_VIEW_TYPE_TAG == 2
ARRAY_TYPE_TAG == 3
CONSTR_TYPE_TAG == 4
TOP_FUN_TYPE_TAG == 5
ASSOC_FUN_TYPE_TAG == 6
FIRST_TYPE_TAG == 7

(***************************************************************************)
(* Machine words.  The code's words are u64 and its integers i32; the     *)
(* model keeps the wrap-around with a narrower word so that TLC's integers *)
(* can hold it.                                                            *)
(***************************************************************************)
WordBits == 16
WordMod == 2 ^ WordBits
I32Bits == 8
I32Mod == 2 ^ I32Bits
\* `i as u64` of an i32: sign extension to the word width.
ToWord(i) == i % WordMod
\* `w as i32` of a word: truncation to the integer width, read as signed.
AsI32(w) == LET t == w % I32Mod IN IF t >= I32Mod \div 2 THEN t - I32Mod ELSE t

(***************************************************************************)
(* The order of SmolStr (byte-wise); the names of the model are single     *)
(* lower-case words, listed here in that order.                            *)
(***************************************************************************)
NameOrder == <<"a", "b", "c", "i", "o", "p", "q", "self", "x", "y">>
NameRank(n) == CHOOSE i \in DOMAIN NameOrder : NameOrder[i] = n

RECURSIVE SortNames(_)
\* Vec::sort of a vector of distinct names, given as a set.
SortNames(S) ==
    IF S = {} THEN <<>>
    ELSE LET m == CHOOSE n \in S : \A o \in S : NameRank(n) <= NameRank(o)
         IN <<m>> \o SortNames(S \ {m})

(***************************************************************************)
(* Fields and RecordShape                                                  *)
(***************************************************************************)
Unnamed(n) == [f |-> "Unnamed", n |-> n, names |-> <<>>]
Named(ns) == [f |-> "Named", n |-> Len(ns), names |-> ns]

FieldsIsEmpty(fields) == fields.f = "Unnamed" /\ fields.n = 0

UnnamedFields(arity) == [sh |-> "UnnamedFields", arity |-> arity, fields |-> <<>>]
NamedFields(fields) == [sh |-> "NamedFields", arity |-> 0, fields |-> fields]
\* The outcome of from_named_things when one of its assertions fails.
ShapePanic == [sh |-> "Panic", arity |-> 0, fields |-> <<>>]

\* from_named_things with the names kept as written (no `fields.sort()`).
from_named_things_unsorted(things) ==
    IF Len(things) = 0 THEN UnnamedFields(0)
    ELSE IF IsSome(things[1].name)
    THEN IF \/ \E i \in DOMAIN things : ~IsSome(things[i].name)
            \/ \E i, j \in DOMAIN things : i < j /\ things[i].name = things[j].name
         THEN ShapePanic
         ELSE NamedFields([i \in DOMAIN things |-> Unwrap(things[i].name)])
    ELSE UnnamedFields(Len(things))

from_named_things(things) ==
    IF Len(things) = 0 THEN UnnamedFields(0)
    ELSE IF IsSome(things[1].name)
    THEN IF \/ \E i \in DOMAIN things : ~IsSome(things[i].name)
            \/ \E i, j \in DOMAIN things : i < j /\ things[i].name = things[j].name
         THEN ShapePanic
         ELSE NamedFields(SortNames({Unwrap(things[i].name) : i \in DOMAIN things}))
    ELSE UnnamedFields(Len(things))

convert_record(shape) ==
    IF shape.sh = "UnnamedFields" THEN Unnamed(shape.arity) ELSE Named(shape.fields)

(***************************************************************************)
(* The heap: a zero-initialised word array with a bump pointer.            *)
(* Address a is values[a + 1]; `values` holds the words touched so far.    *)
(***************************************************************************)
HeapNew == [values |-> <<>>, hp |-> 0]

RECURSIVE Zeros(_)
Zeros(n) == IF n <= 0 THEN <<>> ELSE <<0>> \o Zeros(n - 1)

HeapGet(h, a) == IF a + 1 \in DOMAIN h.values THEN h.values[a + 1] ELSE 0

HeapSet(h, a, w) ==
    LET vs == IF a + 1 \in DOMAIN h.values THEN h.values
              ELSE h.values \o Zeros(a + 1 - Len(h.values))
    IN [h EXCEPT !.values = [vs EXCEPT ![a + 1] = w]]

\* Heap::allocate(n): the address of n fresh words.
HeapAllocate(h, n) ==
    LET vs == IF h.hp + n <= Len(h.values) THEN h.values
              ELSE h.values \o Zeros(h.hp + n - Len(h.values))
    IN [addr |-> h.hp, heap |-> [values |-> vs, hp |-> h.hp + n]]

RECURSIVE HeapSetAll(_, _, _)
\* Writes the words ws at a, a+1, ...
HeapSetAll(h, a, ws) ==
    IF ws = <<>> THEN h ELSE HeapSetAll(HeapSet(h, a, Head(ws)), a + 1, Tail(ws))

\* Allocates the words ws as one object.
HeapAllocateWords(h, ws) ==
    LET r == HeapAllocate(h, Len(ws))
    IN [addr |-> r.addr, heap |-> HeapSetAll(r.heap, r.addr, ws)]

allocate_tag(h, tag) == HeapAllocateWords(h, <<tag>>)
allocate_i32(h, i) == HeapAllocateWords(h, <<I32_TYPE_TAG, ToWord(i)>>)
allocate_constr(h, tag) == HeapAllocateWords(h, <<CONSTR_TYPE_TAG, tag>>)
allocate_top_fun(h, idx) == HeapAllocateWords(h, <<TOP_FUN_TYPE_TAG, idx>>)
\* A Str holds its length and then its bytes (one byte a word in the model).
allocate_str(h, bytes) == HeapAllocateWords(h, <<STR_TYPE_TAG, Len(bytes)>> \o bytes)
\* A StrView holds its backing Str, its byte offset and its byte length.
allocate_str_view(h, backing, offset, len) ==
    HeapAllocateWords(h, <<STR_VIEW_TYPE_TAG, backing, offset, len>>)
\* A view of a view is a view of the same backing Str, further along.
allocate_str_view_from_str_view(h, view, offset, len) ==
    HeapAllocateWords(h, <<STR_VIEW_TYPE_TAG, HeapGet(h, view + 1),
                           HeapGet(h, view + 2) + offset, len>>)
\* The bytes of the Str at a.
str_bytes(h, a) == [i \in 1..HeapGet(h, a + 1) |-> HeapGet(h, a + 1 + i)]
\* A view lies within its backing Str; taking the bytes of one that does
\* not is a slice out of range.
StrViewInRange(h, a) ==
    HeapGet(h, a + 2) + HeapGet(h, a + 3) <= HeapGet(h, HeapGet(h, a + 1) + 1)
\* The bytes of the StrView at a.
str_view_bytes(h, a) ==
    [i \in 1..HeapGet(h, a + 3) |-> HeapGet(h, HeapGet(h, a + 1) + 1 + HeapGet(h, a + 2) + i)]

(***************************************************************************)
(* record_collector.rs: the record shapes of a program                     *)
(***************************************************************************)
RECURSIVE visit_ty(_), visit_pat(_), visit_expr(_), visit_stmt(_)

visit_stmts(stmts) == UNION {visit_stmt(stmts[i]) : i \in DOMAIN stmts}

visit_ty(ty) ==
    IF ty.t = "Named"
    THEN UNION {visit_ty(ty.args[i]) : i \in DOMAIN ty.args}
    ELSE {from_named_things(ty.fields)}

visit_opt_ty(ty) == IF IsSome(ty) THEN visit_ty(Unwrap(ty)) ELSE {}

visit_pat(pat) ==
    CASE pat.p \in {"Var", "Ignore", "Str", "StrPfx"} -> {}
      [] pat.p = "Constr" ->
            UNION {visit_pat(pat.fields[i].node) : i \in DOMAIN pat.fields}
      [] pat.p = "Record" ->
            UNION {visit_pat(pat.fields[i].node) : i \in DOMAIN pat.fields}
               \cup {from_named_things(pat.fields)}
      [] pat.p = "Or" -> visit_pat(pat.pat1) \cup visit_pat(pat.pat2)

visit_expr(e) ==
    CASE e.t \in {"Var", "UpperVar", "Int", "Self", "ConstrSelect"} -> {}
      [] e.t = "String" ->
            UNION {IF e.parts[i].k = "Expr" THEN visit_expr(e.parts[i].expr) ELSE {}
                   : i \in DOMAIN e.parts}
      [] e.t = "FieldSelect" -> visit_expr(e.object)
      [] e.t = "Call" ->
            visit_expr(e.fun) \cup UNION {visit_expr(e.args[i].expr) : i \in DOMAIN e.args}
      [] e.t = "Range" -> visit_expr(e.from) \cup visit_expr(e.to)
      [] e.t = "BinOp" -> visit_expr(e.left) \cup visit_expr(e.right)
      [] e.t = "UnOp" -> visit_expr(e.expr)
      [] e.t = "ArrayIndex" -> visit_expr(e.array) \cup visit_expr(e.index)
      [] e.t = "Record" ->
            UNION {visit_expr(e.fields[i].node) : i \in DOMAIN e.fields}
               \cup {from_named_things(e.fields)}
      [] e.t = "Return" -> visit_expr(e.expr)
      [] e.t = "Match" ->
            visit_expr(e.scrutinee)
               \cup UNION {visit_pat(e.alts[i].pattern)
                              \cup (IF IsSome(e.alts[i].guard)
                                    THEN visit_expr(Unwrap(e.alts[i].guard)) ELSE {})
                              \cup visit_stmts(e.alts[i].rhs)
                           : i \in DOMAIN e.alts}
      [] e.t = "If" ->
            UNION {visit_expr(e.branches[i].cond) \cup visit_stmts(e.branches[i].stmts)
                   : i \in DOMAIN e.branches}
               \cup (IF IsSome(e.else_branch) THEN visit_stmts(Unwrap(e.else_branch)) ELSE {})

visit_stmt(stmt) ==
    CASE stmt.s = "Let" ->
            visit_pat(stmt.lhs) \cup visit_opt_ty(stmt.ty) \cup visit_expr(stmt.rhs)
      [] stmt.s = "Assign" -> visit_expr(stmt.lhs) \cup visit_expr(stmt.rhs)
      [] stmt.s = "Expr" -> visit_expr(stmt.expr)
      [] stmt.s = "For" ->
            visit_opt_ty(stmt.ty) \cup visit_expr(stmt.expr) \cup visit_stmts(stmt.body)
      [] stmt.s = "While" -> visit_expr(stmt.cond) \cup visit_stmts(stmt.body)

visit_fields(fields) ==
    CASE fields.cf = "Empty" -> {}
      [] fields.cf = "Named" ->
            UNION {visit_ty(fields.named[i].ty) : i \in DOMAIN fields.named}
      [] fields.cf = "Unnamed" ->
            UNION {visit_ty(fields.unnamed[i]) : i \in DOMAIN fields.unnamed}

visit_ty_decl(ty_decl) ==
    IF ty_decl.rhs.k = "Sum"
    THEN UNION {visit_fields(ty_decl.rhs.constrs[i].fields) : i \in DOMAIN ty_decl.rhs.constrs}
    ELSE visit_fields(ty_decl.rhs.fields)

visit_fun_decl(fun_decl) ==
    UNION {visit_ty(fun_decl.params[i].ty) : i \in DOMAIN fun_decl.params}
       \cup visit_opt_ty(fun_decl.return_ty)
       \cup visit_stmts(fun_decl.body)

collect_records(decls) ==
    UNION {IF decls[i].d = "Type" THEN visit_ty_decl(decls[i]) ELSE visit_fun_decl(decls[i])
           : i \in DOMAIN decls}

(***************************************************************************)
(* init::collect_types and init::collect_funs                              *)
(***************************************************************************)
\* The types that reuse a reserved low tag.
BuiltinTypeTags ==
    [n \in {"I32", "Str", "StrView", "Array"} |->
        CASE n = "I32" -> I32_TYPE_TAG
          [] n = "Str" -> STR_TYPE_TAG
          [] n = "StrView" -> STR_VIEW_TYPE_TAG
          [] n = "Array" -> ARRAY_TYPE_TAG]

\* The closure tags have an entry in the type table too, so that cons_by_tag
\* is dense from tag 0.
ClosureTyCons ==
    [n \in {"#CONSTR", "#TOP_FUN", "#ASSOC_FUN"} |->
        [value_constrs |-> <<>>,
         type_tag |-> CASE n = "#CONSTR" -> CONSTR_TYPE_TAG
                        [] n = "#TOP_FUN" -> TOP_FUN_TYPE_TAG
                        [] n = "#ASSOC_FUN" -> ASSOC_FUN_TYPE_TAG]]

ConvertFields(fields) ==
    CASE fields.cf = "Empty" -> Unnamed(0)
      [] fields.cf = "Named" -> Named([i \in DOMAIN fields.named |-> fields.named[i].name])
      [] fields.cf = "Unnamed" -> Unnamed(Len(fields.unnamed))

RECURSIVE CollectTypesFrom(_, _, _, _)
CollectTypesFrom(decls, i, ty_cons, next_type_tag) ==
    IF i > Len(decls) THEN [ty_cons |-> ty_cons, next_type_tag |-> next_type_tag]
    ELSE IF decls[i].d # "Type" THEN CollectTypesFrom(decls, i + 1, ty_cons, next_type_tag)
    ELSE LET decl == decls[i]
             value_constrs ==
                 IF decl.rhs.k = "Sum"
                 THEN [c \in DOMAIN decl.rhs.constrs |->
                          [name |-> Some(decl.rhs.constrs[c].name),
                           fields |-> ConvertFields(decl.rhs.constrs[c].fields)]]
                 ELSE <<[name |-> None, fields |-> ConvertFields(decl.rhs.fields)]>>
             builtin == decl.name \in DOMAIN BuiltinTypeTags /\ value_constrs = <<>>
             ty_con == [value_constrs |-> value_constrs,
                        type_tag |-> IF builtin THEN BuiltinTypeTags[decl.name]
                                     ELSE next_type_tag]
         IN CollectTypesFrom(decls, i + 1, MapInsert(ty_cons, decl.name, ty_con),
                             IF builtin THEN next_type_tag
                             ELSE next_type_tag + Len(value_constrs))

collect_types(decls) == CollectTypesFrom(decls, 1, ClosureTyCons, FIRST_TYPE_TAG)

BuiltinFun(ty, m) == [idx |-> 0, kind |-> "Builtin", builtin |-> <<ty, m>>, decl |-> None]
SourceFun(idx, decl) == [idx |-> idx, kind |-> "Source", builtin |-> <<>>, decl |-> Some(decl)]

\* The built-in methods installed on the primitive types.
BuiltinMethods ==
    [ty \in {"I32", "Bool", "Array"} |->
        CASE ty = "I32" ->
                [m \in {"__add", "__sub", "__mul", "__eq", "__cmp"} |-> BuiltinFun("I32", m)]
          [] ty = "Bool" -> [m \in {"__and", "__or", "__eq"} |-> BuiltinFun("Bool", m)]
          [] ty = "Array" -> [m \in {"new", "set"} |-> BuiltinFun("Array", m)]]

TopFunDecls(decls) == SelectSeq(decls, LAMBDA d : d.d = "Fun" /\ ~IsSome(d.type_name))

collect_funs(decls) ==
    LET tops == TopFunDecls(decls)
        tys == {decls[i].name : i \in {j \in DOMAIN decls : decls[j].d = "Type"}}
                  \cap DOMAIN BuiltinMethods
        assoc_tys == tys \cup {Unwrap(decls[i].type_name) :
                                 i \in {j \in DOMAIN decls :
                                          decls[j].d = "Fun" /\ IsSome(decls[j].type_name)}}
        source_of(ty) ==
            LET is == {j \in DOMAIN decls : /\ decls[j].d = "Fun"
                                            /\ decls[j].type_name = Some(ty)}
            IN [m \in {decls[j].name : j \in is} |->
                   SourceFun(0, decls[CHOOSE j \in is : decls[j].name = m])]
    IN [top_level_funs |->
           [n \in {tops[i].name : i \in DOMAIN tops} |->
               LET i == CHOOSE j \in DOMAIN tops : tops[j].name = n
               IN SourceFun(i - 1, tops[i])],
        associated_funs |->
           [ty \in assoc_tys |->
               MapExtend(IF ty \in tys THEN BuiltinMethods[ty] ELSE EmptyMap, source_of(ty))]]

(***************************************************************************)
(* Pgm::new                                                                *)
(***************************************************************************)
NamedCon(ty_name, con_name, fields, alloc) ==
    [info |-> [k |-> "Named", ty_name |-> ty_name, con_name |-> con_name,
               shape |-> UnnamedFields(0)],
     fields |-> fields, alloc |-> alloc]
RecordCon(shape) ==
    [info |-> [k |-> "Record", ty_name |-> "", con_name |-> None, shape |-> shape],
     fields |-> convert_record(shape), alloc |-> None]

RECURSIVE PushValueConstrs(_, _, _, _, _)
\* The inner loop over the value constructors of one type.
PushValueConstrs(ty_name, constrs, i, cons_by_tag, h) ==
    IF i > Len(constrs) THEN [cons_by_tag |-> cons_by_tag, heap |-> h]
    ELSE LET constr == constrs[i]
             a == allocate_tag(h, Len(cons_by_tag))
             empty == FieldsIsEmpty(constr.fields)
         IN PushValueConstrs(ty_name, constrs, i + 1,
                Append(cons_by_tag,
                       NamedCon(ty_name, constr.name, constr.fields,
                                IF empty THEN Some(a.addr) ELSE None)),
                IF empty THEN a.heap ELSE h)

RECURSIVE PushTyConsReversed(_, _, _, _)
\* The loop over the types by decreasing type tag.
PushTyConsReversed(ty_cons, todo, cons_by_tag, h) ==
    IF todo = {} THEN [cons_by_tag |-> cons_by_tag, heap |-> h]
    ELSE LET ty_name == CHOOSE n \in todo :
                            \A o \in todo : ty_cons[n].type_tag >= ty_cons[o].type_tag
             ty_con == ty_cons[ty_name]
             r == IF ty_con.value_constrs = <<>>
                  THEN [cons_by_tag |-> Append(cons_by_tag,
                                               NamedCon(ty_name, None, Unnamed(0), None)),
                        heap |-> h]
                  ELSE PushValueConstrs(ty_name, ty_con.value_constrs, 1, cons_by_tag, h)
         IN PushTyConsReversed(ty_cons, todo \ {ty_name}, r.cons_by_tag, r.heap)

RECURSIVE PushTyCons(_, _, _, _)
\* The loop over ty_cons_sorted: the types of `todo`, by increasing type tag.
PushTyCons(ty_cons, todo, cons_by_tag, h) ==
    IF todo = {} THEN [cons_by_tag |-> cons_by_tag, heap |-> h]
    ELSE LET ty_name == CHOOSE n \in todo :
                            \A o \in todo : ty_cons[n].type_tag <= ty_cons[o].type_tag
             ty_con == ty_cons[ty_name]
             r == IF ty_con.value_constrs = <<>>
                  THEN [cons_by_tag |-> Append(cons_by_tag,
                                               NamedCon(ty_name, None, Unnamed(0), None)),
                        heap |-> h]
                  ELSE PushValueConstrs(ty_name, ty_con.value_constrs, 1, cons_by_tag, h)
         IN PushTyCons(ty_cons, todo \ {ty_name}, r.cons_by_tag, r.heap)

\* Vec indexing and Option::unwrap on cons_by_tag: the slot's canonical
\* allocation, None when the index is out of bounds or the slot has none.
ConAlloc(cons_by_tag, tag) ==
    IF tag + 1 \in DOMAIN cons_by_tag THEN cons_by_tag[tag + 1].alloc ELSE None

\* Pgm::new(pgm, heap); record_shapes is the set of collect_records in the
\* order its iteration yields.
PgmNew(decls, record_shapes, h) ==
    LET tys == collect_types(decls)
        ty_cons == tys.ty_cons
        cons == PushTyCons(ty_cons, DOMAIN ty_cons, <<>>, h)
        cons_by_tag == cons.cons_by_tag \o [i \in DOMAIN record_shapes |->
                                               RecordCon(record_shapes[i])]
        record_ty_tags == [sh \in Range(record_shapes) |->
                              tys.next_type_tag - 1
                                 + CHOOSE i \in DOMAIN record_shapes : record_shapes[i] = sh]
        next_type_tag == tys.next_type_tag + Len(record_shapes)
        funs == collect_funs(decls)
        covers(ty, tag) ==
            LET ty_con == ty_cons[ty]
                n == Len(ty_con.value_constrs)
            IN IF n = 0 THEN tag = ty_con.type_tag
               ELSE ty_con.type_tag <= tag /\ tag < ty_con.type_tag + n
        associated_funs ==
            [t \in 1..next_type_tag |->
                LET owners == {ty \in DOMAIN funs.associated_funs \cap DOMAIN ty_cons :
                                  covers(ty, t - 1)}
                IN IF owners = {} THEN EmptyMap
                   ELSE funs.associated_funs[CHOOSE ty \in owners : TRUE]]
        tops == TopFunDecls(decls)
        top_level_funs_by_idx == [i \in DOMAIN tops |-> funs.top_level_funs[tops[i].name]]
        has_bool == "Bool" \in DOMAIN ty_cons
        bool_ty_con == ty_cons["Bool"]
        bool_ok == /\ has_bool
                   /\ Len(bool_ty_con.value_constrs) >= 2
                   /\ bool_ty_con.value_constrs[1].name = Some("False")
                   /\ bool_ty_con.value_constrs[2].name = Some("True")
                   /\ IsSome(ConAlloc(cons_by_tag, bool_ty_con.type_tag))
                   /\ IsSome(ConAlloc(cons_by_tag, bool_ty_con.type_tag + 1))
        panic == \/ ShapePanic \in Range(record_shapes)
                 \/ \E ty \in DOMAIN funs.associated_funs :
                       \/ ty \notin DOMAIN ty_cons
                       \/ \E t \in 0..(ty_cons[ty].type_tag + Len(ty_cons[ty].value_constrs)) :
                             covers(ty, t) /\ t >= next_type_tag
                 \/ ~bool_ok
    IN [panic |-> panic,
        heap |-> cons.heap,
        pgm |-> [ty_cons |-> ty_cons,
                 cons_by_tag |-> cons_by_tag,
                 record_ty_tags |-> record_ty_tags,
                 associated_funs |-> associated_funs,
                 top_level_funs |-> funs.top_level_funs,
                 top_level_funs_by_idx |-> top_level_funs_by_idx,
                 false_alloc |-> IF bool_ok
                                 THEN Unwrap(ConAlloc(cons_by_tag, bool_ty_con.type_tag)) ELSE 0,
                 true_alloc |-> IF bool_ok
                                THEN Unwrap(ConAlloc(cons_by_tag, bool_ty_con.type_tag + 1))
                                ELSE 0]]

get_tag_fields(tag) == pgm.cons_by_tag[tag + 1].fields

bool_alloc(b) == IF b THEN pgm.true_alloc ELSE pgm.false_alloc

\* TyCon::tag_range.  type_tag + len - 1 is computed in unsigned words: with
\* no value constructor at tag 0 the subtraction overflows, which panics in
\* a build with overflow checks and wraps in one without.
tag_range(ty_con) ==
    LET sum == ty_con.type_tag + Len(ty_con.value_constrs)
    IN [first |-> ty_con.type_tag, last |-> (sum - 1) % WordMod, overflow |-> sum = 0]

(***************************************************************************)
(* ControlFlow, threaded with the evaluator's state                        *)
(*   s = [heap, locals, trace, depth, level]; a result is [k, v, s], k one *)
(*   "Val", "Ret" (ControlFlow), "Abort" (a panic) and "Diverge" (the      *)
(*   iteration bound of the model was reached).                            *)
(***************************************************************************)
Val(s, v) == [k |-> "Val", v |-> v, s |-> s]
Ret(s, v) == [k |-> "Ret", v |-> v, s |-> s]
Panic(s) == [k |-> "Abort", v |-> 0, s |-> s]
Diverge(s) == [k |-> "Diverge", v |-> 0, s |-> s]

\* The trace is a history of the run.  Every eval logs the expression it
\* enters and what it returns, at the depth of calls d and the level of
\* nesting l of the expression in its function body; exec logs a Ret it
\* returns, the allocation of an object its tag and address, a call of a
\* source function the environment the body starts with, its return the
\* caller's environment before and after, and a `for` the environment it
\* starts its loop with, the one each run of its body leaves and the one
\* the statement leaves.
Log(s, ev) == [s EXCEPT !.trace = Append(@, ev)]
EvalEvent(e, s) == [ev |-> "eval", e |-> e, d |-> s.depth, l |-> s.level]
\* The payload words of the object an expression returned.
ObjWords(h, v, e) ==
    CASE e.t = "Record" -> [i \in 1..Len(e.fields) |-> HeapGet(h, v + i)]
      [] e.t = "Call" -> [i \in 1..Len(e.args) |-> HeapGet(h, v + i)]
      [] OTHER -> <<>>
ExitEvent(e, r, s) ==
    [ev |-> "exit", e |-> e, k |-> r.k, v |-> r.v,
     o |-> IF r.k = "Val" THEN ObjWords(r.s.heap, r.v, e) ELSE <<>>,
     d |-> s.depth, l |-> s.level]
ExecEvent(v, d, l) == [ev |-> "exec", k |-> "Ret", v |-> v, d |-> d, l |-> l]
AllocEvent(tag, addr, words, s) ==
    [ev |-> "alloc", tag |-> tag, addr |-> addr, words |-> words, d |-> s.depth, l |-> s.level]
CallEvent(fun, args, env, d) ==
    [ev |-> "call", fun |-> fun, args |-> args, env |-> env, d |-> d]
ReturnEvent(fun, v, before, after, d) ==
    [ev |-> "return", fun |-> fun, v |-> v, before |-> before, after |-> after, d |-> d]
ForEvent(ev, var, s) ==
    [ev |-> ev, var |-> var, env |-> s.locals, d |-> s.depth, l |-> s.level]

\* A `for` logs its statement before it evaluates its range, and each
\* iteration its integer, the box bound to the variable, the heap pointer
\* before the box was allocated and the environment the body starts with.
HeadEvent(stmt, s) == [ev |-> "head", stmt |-> stmt, var |-> stmt.var, d |-> s.depth, l |-> s.level]
IterEvent(var, i, addr, hp, s) ==
    [ev |-> "iter", var |-> var, i |-> i, addr |-> addr, hp |-> hp, env |-> s.locals,
     d |-> s.depth, l |-> s.level]

\* A match logs each alternative it tries: the pattern, the value, what
\* try_bind_pat answered and the heap pointer and environment before it.
TryEvent(i, pattern, value, b, s) ==
    [ev |-> "try", alt |-> i, pat |-> pattern, value |-> value, ok |-> b.ok,
     panic |-> b.panic, binds |-> b.binds, hp |-> s.heap.hp, env |-> s.locals,
     before |-> s.heap, after |-> b.heap,
     d |-> s.depth, l |-> s.level]

\* ... and the alternative whose right-hand side it executes, with the
\* environment the right-hand side starts in.
ArmEvent(i, s) == [ev |-> "arm", alt |-> i, env |-> s.locals, d |-> s.depth, l |-> s.level]

\* An array index logs the address of the element word it reads.
ReadEvent(addr, s) == [ev |-> "read", addr |-> addr, d |-> s.depth, l |-> s.level]
\* A `while` statement: "cond" when its condition has the value v, "wbody"
\* when it starts its body, "wend" when it ends with the value v.
WhileEvent(ev, v, s) == [ev |-> ev, v |-> v, d |-> s.depth, l |-> s.level]
\* A `match` or `if` expression has its value: the environment it leaves.
LeaveEvent(s) == [ev |-> "leave", env |-> s.locals, d |-> s.depth, l |-> s.level]
\* cmp has the value `ret` that __cmp returned.
CmpEvent(ret, s) ==
    [ev |-> "cmp", ret |-> ret, tag |-> HeapGet(s.heap, ret), d |-> s.depth, l |-> s.level]
\* assign has `val` to put in `lhs`; for a field, `object` is the value of
\* the object expression (0 for a variable).
AssignEvent(lhs, op, object, val, s) ==
    [ev |-> "assign", lhs |-> lhs, op |-> op, object |-> object, val |-> val,
     hp |-> s.heap, env |-> s.locals, d |-> s.depth, l |-> s.level]
\* assign is done: the heap and the environment it leaves.
AssignedEvent(s) ==
    [ev |-> "assigned", hp |-> s.heap, env |-> s.locals, d |-> s.depth, l |-> s.level]

WithHeap(s, h) == [s EXCEPT !.heap = h]
WithLocals(s, l) == [s EXCEPT !.locals = l]

ValidTag(tag) == tag + 1 \in DOMAIN pgm.cons_by_tag

\* Iterator::find over the value constructors: the index (from 0) of the
\* first constructor named `name`, -1 when there is none.
FindConstr(value_constrs, name) ==
    LET is == {i \in DOMAIN value_constrs : value_constrs[i].name = Some(name)}
    IN IF is = {} THEN -1 ELSE (CHOOSE i \in is : \A j \in is : i <= j) - 1

\* Index (from 0) of a name in a vector of names, -1 when absent.
FindName(names, name) ==
    LET is == {i \in DOMAIN names : names[i] = name}
    IN IF is = {} THEN -1 ELSE (CHOOSE i \in is : \A j \in is : i <= j) - 1

(***************************************************************************)
(* try_bind_pat and try_bind_field_pats                                    *)
(*   a result is [ok, panic, binds, heap]: Some(binds) when ok, None when  *)
(*   ~ok, and a panic of the matcher when panic.                           *)
(***************************************************************************)
BindSome(h, binds) == [ok |-> TRUE, panic |-> FALSE, binds |-> binds, heap |-> h]
BindNone(h) == [ok |-> FALSE, panic |-> FALSE, binds |-> EmptyMap, heap |-> h]
BindPanic(h) == [ok |-> FALSE, panic |-> TRUE, binds |-> EmptyMap, heap |-> h]

RECURSIVE try_bind_pat(_, _, _)
RECURSIVE BindUnnamedFrom(_, _, _, _, _), BindNamedFrom(_, _, _, _, _, _)

\* The loop of the Unnamed arm, from field pattern i on.
BindUnnamedFrom(h, field_pats, value, i, ret) ==
    IF i > Len(field_pats) THEN BindSome(h, ret)
    ELSE IF IsSome(field_pats[i].name) THEN BindPanic(h)
    ELSE LET Bound(r) ==
                 IF ~r.ok THEN r
                 ELSE BindUnnamedFrom(r.heap, field_pats, value, i + 1, MapExtend(ret, r.binds))
         IN Bound(try_bind_pat(h, field_pats[i].node, HeapGet(h, value + (i - 1) + 1)))

\* The loop of the Named arm, from field i of the constructor on.
BindNamedFrom(h, field_tys, field_pats, value, i, ret) ==
    IF i > Len(field_tys) THEN BindSome(h, ret)
    ELSE LET found == {j \in DOMAIN field_pats : field_pats[j].name = Some(field_tys[i])}
             unnamed == {j \in DOMAIN field_pats : field_pats[j].name = None}
             first == CHOOSE j \in found : \A o \in found : j <= o
             Bound(r) ==
                 IF ~r.ok THEN r
                 ELSE BindNamedFrom(r.heap, field_tys, field_pats, value, i + 1,
                                    MapExtend(ret, r.binds))
         IN IF found = {} \/ \E j \in unnamed : j < first THEN BindPanic(h)
            ELSE Bound(try_bind_pat(h, field_pats[first].node, HeapGet(h, value + 1 + (i - 1))))

try_bind_field_pats(h, constr_fields, field_pats, value) ==
    IF constr_fields.f = "Unnamed"
    THEN IF constr_fields.n # Len(field_pats) THEN BindPanic(h)
         ELSE BindUnnamedFrom(h, field_pats, value, 1, EmptyMap)
    ELSE IF Len(constr_fields.names) # Len(field_pats) THEN BindPanic(h)
         ELSE BindNamedFrom(h, constr_fields.names, field_pats, value, 1, EmptyMap)

\* BindConstrPat without the comparison of the value's tag with the tag of
\* the constructor named.
BindConstrPatAnyVariant(h, pattern, value) ==
    LET value_tag == HeapGet(h, value)
    IN IF pattern.type_ \notin DOMAIN pgm.ty_cons THEN BindPanic(h)
       ELSE LET ty_con == pgm.ty_cons[pattern.type_]
                range == tag_range(ty_con)
            IN IF value_tag < range.first \/ value_tag > range.last THEN BindNone(h)
               ELSE IF ~ValidTag(value_tag) THEN BindPanic(h)
               ELSE try_bind_field_pats(h, get_tag_fields(value_tag), pattern.fields, value)

BindConstrPat(h, pattern, value) ==
    LET value_tag == HeapGet(h, value)
    IN IF pattern.type_ \notin DOMAIN pgm.ty_cons THEN BindPanic(h)
       ELSE LET ty_con == pgm.ty_cons[pattern.type_]
                range == tag_range(ty_con)
                named == IsSome(pattern.constr)
                idx == IF named THEN FindConstr(ty_con.value_constrs, Unwrap(pattern.constr))
                       ELSE 0
            IN IF range.overflow /\ debug THEN BindPanic(h)
               ELSE IF value_tag < range.first \/ value_tag > range.last THEN BindNone(h)
               ELSE IF named /\ idx < 0 THEN BindPanic(h)
               ELSE IF ~named /\ range.first # range.last THEN BindNone(h)
               ELSE IF value_tag # ty_con.type_tag + idx THEN BindNone(h)
               ELSE IF ~ValidTag(value_tag) THEN BindPanic(h)
               ELSE try_bind_field_pats(h, get_tag_fields(value_tag), pattern.fields, value)

BindRecordPat(h, pattern, value) ==
    LET value_tag == HeapGet(h, value)
    IN IF ~ValidTag(value_tag) THEN BindPanic(h)
       ELSE try_bind_field_pats(h, get_tag_fields(value_tag), pattern.fields, value)

BindOrPat(h, pattern, value) ==
    LET Second(r1) ==
            IF r1.ok \/ r1.panic THEN r1 ELSE try_bind_pat(r1.heap, pattern.pat2, value)
    IN Second(try_bind_pat(h, pattern.pat1, value))

\* The bytes of a string value, as the Str and StrPfx arms read them; not
\* ok when the read is out of range.
ValueBytes(h, value) ==
    IF HeapGet(h, value) = STR_TYPE_TAG THEN [ok |-> TRUE, bytes |-> str_bytes(h, value)]
    ELSE IF StrViewInRange(h, value) THEN [ok |-> TRUE, bytes |-> str_view_bytes(h, value)]
    ELSE [ok |-> FALSE, bytes |-> <<>>]

StartsWith(bytes, pfx) == Len(pfx) <= Len(bytes) /\ SubSeq(bytes, 1, Len(pfx)) = pfx

BindStrPat(h, pattern, value) ==
    LET value_bytes == ValueBytes(h, value)
    IN IF debug /\ HeapGet(h, value) \notin {STR_TYPE_TAG, STR_VIEW_TYPE_TAG} THEN BindPanic(h)
       ELSE IF ~value_bytes.ok THEN BindPanic(h)
       ELSE IF value_bytes.bytes = pattern.str THEN BindSome(h, EmptyMap)
       ELSE BindNone(h)

BindStrPfxPat(h, pattern, value) ==
    LET value_bytes == ValueBytes(h, value)
        pfx_len == Len(pattern.pfx)
        len == Len(value_bytes.bytes)
        rest == IF HeapGet(h, value) = STR_TYPE_TAG
                THEN allocate_str_view(h, value, pfx_len, len)
                ELSE allocate_str_view_from_str_view(h, value, pfx_len, len)
    IN IF debug /\ HeapGet(h, value) \notin {STR_TYPE_TAG, STR_VIEW_TYPE_TAG} THEN BindPanic(h)
       ELSE IF ~value_bytes.ok THEN BindPanic(h)
       ELSE IF StartsWith(value_bytes.bytes, pattern.pfx)
       THEN BindSome(rest.heap, MapInsert(EmptyMap, pattern.var, rest.addr))
       ELSE BindNone(h)

try_bind_pat(h, pattern, value) ==
    CASE pattern.p = "Var" -> BindSome(h, MapInsert(EmptyMap, pattern.var, value))
      [] pattern.p = "Ignore" -> BindSome(h, EmptyMap)
      [] pattern.p = "Constr" -> BindConstrPat(h, pattern, value)
      [] pattern.p = "Record" -> BindRecordPat(h, pattern, value)
      [] pattern.p = "Str" -> BindStrPat(h, pattern, value)
      [] pattern.p = "StrPfx" -> BindStrPfxPat(h, pattern, value)
      [] pattern.p = "Or" -> BindOrPat(h, pattern, value)

(***************************************************************************)
(* Calls                                                                   *)
(***************************************************************************)
\* eval, exec and call call one another.  The recursion is tied in one
\* operator, Interp, that runs one of the three on the state s; eval, exec
\* and call name its three entries.
RECURSIVE Interp(_, _)
eval(s, e) == Interp(s, [fn |-> "eval", expr |-> e])
exec(s, stmts) == Interp(s, [fn |-> "exec", stmts |-> stmts])
call(s, fun, args) == Interp(s, [fn |-> "call", fun |-> fun, args |-> args])

\* The canonical allocation of constructor `name` of type `ty`, None when
\* the type or the constructor is missing or the constructor has fields.
CanonicalAlloc(ty, name) ==
    IF ty \notin DOMAIN pgm.ty_cons THEN None
    ELSE LET idx == FindConstr(pgm.ty_cons[ty].value_constrs, name)
         IN IF idx < 0 THEN None
            ELSE ConAlloc(pgm.cons_by_tag, pgm.ty_cons[ty].type_tag + idx)

\* builtins::call_builtin_fun for the built-in methods of I32 and Bool.
\* The built-ins that make arrays: Array.new(len), an array of len zero
\* words, and array.set(idx, elem).  An array is its tag, its length and
\* its element words.
call_array_builtin(s, method, args) ==
    LET tag(a) == HeapGet(s.heap, a)
        int(a) == AsI32(HeapGet(s.heap, a + 1))
    IN IF method = "new"
       THEN IF Len(args) # 1 THEN Panic(s)
            ELSE IF tag(args[1]) # I32_TYPE_TAG THEN Panic(s)
            ELSE IF int(args[1]) < 0 THEN Panic(s)
            ELSE LET a == HeapAllocateWords(s.heap, <<ARRAY_TYPE_TAG, int(args[1])>>
                                                       \o Zeros(int(args[1])))
                 IN Val(WithHeap(s, a.heap), a.addr)
       ELSE IF Len(args) # 3 THEN Panic(s)
            ELSE IF tag(args[1]) # ARRAY_TYPE_TAG \/ tag(args[2]) # I32_TYPE_TAG THEN Panic(s)
            ELSE IF int(args[2]) < 0 \/ int(args[2]) >= HeapGet(s.heap, args[1] + 1)
            THEN Panic(s)
            ELSE Val(WithHeap(s, HeapSet(s.heap, args[1] + 2 + int(args[2]), args[3])), 0)

call_builtin_fun(s, builtin, args) ==
    LET tag(a) == HeapGet(s.heap, a)
        int(a) == AsI32(HeapGet(s.heap, a + 1))
        box(i) == LET a == allocate_i32(s.heap, i) IN Val(WithHeap(s, a.heap), a.addr)
        is_bool(a) == a \in {pgm.true_alloc, pgm.false_alloc}
    IN IF builtin[1] = "Array" THEN call_array_builtin(s, builtin[2], args)
       ELSE IF Len(args) # 2 THEN Panic(s)
       ELSE IF builtin[1] = "I32"
       THEN IF tag(args[1]) # I32_TYPE_TAG \/ tag(args[2]) # I32_TYPE_TAG THEN Panic(s)
            ELSE CASE builtin[2] = "__add" -> box(int(args[1]) + int(args[2]))
                   [] builtin[2] = "__sub" -> box(int(args[1]) - int(args[2]))
                   [] builtin[2] = "__mul" -> box(int(args[1]) * int(args[2]))
                   [] builtin[2] = "__eq" -> Val(s, bool_alloc(int(args[1]) = int(args[2])))
                   [] builtin[2] = "__cmp" ->
                         LET ord == CanonicalAlloc("Ordering",
                                        IF int(args[1]) < int(args[2]) THEN "Less"
                                        ELSE IF int(args[1]) = int(args[2]) THEN "Equal"
                                        ELSE "Greater")
                         IN IF IsSome(ord) THEN Val(s, Unwrap(ord)) ELSE Panic(s)
       ELSE IF ~is_bool(args[1]) \/ ~is_bool(args[2]) THEN Panic(s)
            ELSE CASE builtin[2] = "__and" ->
                         Val(s, bool_alloc(args[1] = pgm.true_alloc /\ args[2] = pgm.true_alloc))
                   [] builtin[2] = "__or" ->
                         Val(s, bool_alloc(args[1] = pgm.true_alloc \/ args[2] = pgm.true_alloc))
                   [] builtin[2] = "__eq" -> Val(s, bool_alloc(args[1] = args[2]))

\* FunDecl::num_params: the parameters and the implicit self.
num_params(fun) == Len(fun.params) + (IF fun.self_ THEN 1 ELSE 0)

RECURSIVE BindParams(_, _, _, _)
\* The loop that binds args[arg_idx..] to the parameters from i on; None
\* when a name is bound twice.
BindParams(fun, args, i, env) ==
    IF i > Len(fun.params) THEN Some(env)
    ELSE IF fun.params[i].name \in DOMAIN env THEN None
    ELSE BindParams(fun, args, i + 1,
                    MapInsert(env, fun.params[i].name,
                              args[i + (IF fun.self_ THEN 1 ELSE 0)]))

\* call_source_fun with the body run in, and leaving its bindings in, the
\* environment of the caller.
call_source_fun_shared(s, fun, args) ==
    IF num_params(fun) # Len(args) THEN Panic(s)
    ELSE LET env == [i \in DOMAIN fun.params |-> args[i + (IF fun.self_ THEN 1 ELSE 0)]]
             bound == [n \in {fun.params[i].name : i \in DOMAIN fun.params} |->
                          env[CHOOSE i \in DOMAIN fun.params : fun.params[i].name = n]]
             start == MapExtend(IF fun.self_ THEN MapInsert(s.locals, "self", args[1])
                                ELSE s.locals, bound)
             Back(r) == [r.s EXCEPT !.depth = s.depth, !.level = s.level]
             Returned(r) ==
                 IF r.k \in {"Val", "Ret"}
                 THEN Val(Log(Back(r), ReturnEvent(fun, r.v, s.locals, Back(r).locals,
                                                   s.depth + 1)), r.v)
                 ELSE [r EXCEPT !.s = Back(r)]
         IN Returned(exec([Log(s, CallEvent(fun, args, start, s.depth + 1))
                              EXCEPT !.locals = start, !.depth = s.depth + 1, !.level = 0],
                          fun.body))

call_source_fun(s, fun, args) ==
    IF num_params(fun) # Len(args) THEN Panic(s)
    ELSE LET env == BindParams(fun, args, 1,
                               IF fun.self_ THEN MapInsert(EmptyMap, "self", args[1])
                               ELSE EmptyMap)
             Back(r) == [r.s EXCEPT !.locals = s.locals, !.depth = s.depth,
                                    !.level = s.level]
             Returned(r) ==
                 IF r.k \in {"Val", "Ret"}
                 THEN Val(Log(Back(r), ReturnEvent(fun, r.v, s.locals, Back(r).locals,
                                                   s.depth + 1)), r.v)
                 ELSE [r EXCEPT !.s = Back(r)]
         IN IF ~IsSome(env) THEN Panic(s)
            ELSE Returned(exec([Log(s, CallEvent(fun, args, Unwrap(env), s.depth + 1))
                                   EXCEPT !.locals = Unwrap(env), !.depth = s.depth + 1,
                                          !.level = 0],
                               fun.body))

call_method(s, receiver, method, args) ==
    LET tag == HeapGet(s.heap, receiver)
    IN IF tag + 1 \notin DOMAIN pgm.associated_funs THEN Panic(s)
       ELSE IF method \notin DOMAIN pgm.associated_funs[tag + 1] THEN Panic(s)
       ELSE call(s, pgm.associated_funs[tag + 1][method], <<receiver>> \o args)

\* A result of evaluating an argument list: [k, v, s, vals].
ArgVals(r, vals) == [k |-> r.k, v |-> r.v, s |-> r.s, vals |-> vals]
Flow(r) == [k |-> r.k, v |-> r.v, s |-> r.s]

RECURSIVE EvalArgsRightToLeft(_, _, _, _, _)
\* The argument loop run from the last argument to the first; the values
\* are passed in the order of the arguments.
EvalArgsRightToLeft(s, args, i, vals, unnamed_only) ==
    IF i > Len(args) THEN ArgVals(Val(s, 0), vals)
    ELSE IF unnamed_only /\ IsSome(args[Len(args) + 1 - i].name) THEN ArgVals(Panic(s), vals)
    ELSE LET Push(r) ==
                 IF r.k # "Val" THEN ArgVals(r, vals)
                 ELSE EvalArgsRightToLeft(r.s, args, i + 1, <<r.v>> \o vals, unnamed_only)
         IN Push(eval(s, args[Len(args) + 1 - i].expr))

RECURSIVE EvalArgs(_, _, _, _, _)
\* `for arg in args { arg_values.push(val!(eval(arg.expr))) }`, from
\* argument i on; with unnamed_only, each argument is first asserted to
\* have no name.
EvalArgs(s, args, i, vals, unnamed_only) ==
    IF i > Len(args) THEN ArgVals(Val(s, 0), vals)
    ELSE IF unnamed_only /\ IsSome(args[i].name) THEN ArgVals(Panic(s), vals)
    ELSE LET Push(r) ==
                 IF r.k # "Val" THEN ArgVals(r, vals)
                 ELSE EvalArgs(r.s, args, i + 1, Append(vals, r.v), unnamed_only)
         IN Push(eval(s, args[i].expr))

RECURSIVE EvalNamedArgs(_, _, _, _)
\* The loop of the Named arm of allocate_object_from_tag; vals is the map
\* named_values.
EvalNamedArgs(s, args, i, vals) ==
    IF i > Len(args) THEN ArgVals(Val(s, 0), vals)
    ELSE IF ~IsSome(args[i].name) THEN ArgVals(Panic(s), vals)
    ELSE LET Insert(r) ==
                 IF r.k # "Val" THEN ArgVals(r, vals)
                 ELSE IF Unwrap(args[i].name) \in DOMAIN vals THEN ArgVals(Panic(r.s), vals)
                 ELSE EvalNamedArgs(r.s, args, i + 1,
                                    MapInsert(vals, Unwrap(args[i].name), r.v))
         IN Insert(eval(s, args[i].expr))

allocate_object_from_tag(s, constr_tag, args) ==
    IF ~ValidTag(constr_tag) THEN Panic(s)
    ELSE LET fields == get_tag_fields(constr_tag)
             unnamed == fields.f = "Unnamed"
             Store(r, arg_values) ==
                 LET a == HeapAllocate(r.s.heap, 1 + Len(args))
                     h == HeapSetAll(a.heap, a.addr, <<constr_tag>> \o arg_values)
                 IN Val(Log(WithHeap(r.s, h), AllocEvent(constr_tag, a.addr, 1 + Len(args), s)), a.addr)
             Allocate(r) ==
                 IF r.k # "Val" THEN Flow(r)
                 ELSE IF unnamed THEN Store(r, r.vals)
                 ELSE IF \E i \in DOMAIN fields.names : fields.names[i] \notin DOMAIN r.vals
                 THEN Panic(r.s)
                 ELSE Store(r, [i \in DOMAIN fields.names |-> r.vals[fields.names[i]]])
         IN IF unnamed
            THEN IF fields.n # Len(args) THEN Panic(s)
                 ELSE Allocate(EvalArgs(s, args, 1, <<>>, TRUE))
            ELSE Allocate(EvalNamedArgs(s, args, 1, EmptyMap))

allocate_object_from_names(s, ty, constr_name, args) ==
    IF ty \notin DOMAIN pgm.ty_cons THEN Panic(s)
    ELSE LET ty_con == pgm.ty_cons[ty]
             constr_idx == IF IsSome(constr_name)
                           THEN FindConstr(ty_con.value_constrs, Unwrap(constr_name))
                           ELSE IF Len(ty_con.value_constrs) = 1 THEN 0 ELSE -1
         IN IF constr_idx < 0 THEN Panic(s)
            ELSE allocate_object_from_tag(s, ty_con.type_tag + constr_idx, args)

(***************************************************************************)
(* eval, one operator per arm of its match                                 *)
(***************************************************************************)
\* char::is_uppercase of the first character of an identifier of the model.
UpperNames ==
    {"True", "False", "Some", "Nil", "Less", "Equal", "Greater", "At", "Unit", "Box", "Dot",
     "None", "Maybe"}
IsUppercase(name) == name \in UpperNames

EvalVar(s, e) ==
    IF e.var \in DOMAIN s.locals THEN Val(s, s.locals[e.var])
    ELSE IF e.var \in DOMAIN pgm.top_level_funs
    THEN LET a == allocate_top_fun(s.heap, pgm.top_level_funs[e.var].idx)
         IN Val(WithHeap(s, a.heap), a.addr)
    ELSE Panic(s)

EvalUpperVar(s, e) ==
    IF e.ty \notin DOMAIN pgm.ty_cons THEN Panic(s)
    ELSE LET ty_con == pgm.ty_cons[e.ty]
             range == tag_range(ty_con)
         IN IF range.overflow /\ debug THEN Panic(s)
            ELSE IF range.first # range.last THEN Panic(s)
            ELSE LET a == allocate_constr(s.heap, ty_con.type_tag)
                 IN Val(WithHeap(s, a.heap), a.addr)

EvalFieldSelect(s, e) ==
    LET Select(r) ==
            IF r.k # "Val" THEN r
            ELSE LET object == r.v
                     object_tag == HeapGet(r.s.heap, object)
                 IN IF ~ValidTag(object_tag) THEN Panic(r.s)
                    ELSE LET fields == get_tag_fields(object_tag)
                             field_idx == FindName(fields.names, e.field)
                         IN IF fields.f = "Unnamed" \/ field_idx < 0 THEN Panic(r.s)
                            ELSE Val(r.s, HeapGet(r.s.heap, object + 1 + field_idx))
    IN Select(eval(s, e.object))

EvalConstrSelect(s, e) ==
    IF e.ty \notin DOMAIN pgm.ty_cons THEN Panic(s)
    ELSE LET ty_con == pgm.ty_cons[e.ty]
             constr_idx == FindConstr(ty_con.value_constrs, e.constr)
             tag == ty_con.type_tag + constr_idx
         IN IF constr_idx < 0 THEN Panic(s)
            ELSE IF FieldsIsEmpty(ty_con.value_constrs[constr_idx + 1].fields)
            THEN LET a == HeapAllocate(s.heap, 1)
                 IN Val(Log(WithHeap(s, HeapSet(a.heap, a.addr, tag)),
                            AllocEvent(tag, a.addr, 1, s)), a.addr)
            ELSE LET a == allocate_constr(s.heap, tag)
                 IN Val(WithHeap(s, a.heap), a.addr)

\* `ControlFlow::Val(call(fun, arg_values))` after the arguments r.
CallWith(r, fun, arg_vals) ==
    IF r.k # "Val" THEN Flow(r) ELSE call(r.s, fun, arg_vals \o r.vals)

\* The dispatch on the tag of an evaluated callee.
CallClosure(s, fun, args) ==
    LET tag == HeapGet(s.heap, fun)
    IN CASE tag = CONSTR_TYPE_TAG ->
               allocate_object_from_tag(s, HeapGet(s.heap, fun + 1), args)
         [] tag = TOP_FUN_TYPE_TAG ->
               LET top_fun_idx == HeapGet(s.heap, fun + 1)
               IN IF top_fun_idx + 1 \notin DOMAIN pgm.top_level_funs_by_idx THEN Panic(s)
                  ELSE CallWith(EvalArgs(s, args, 1, <<>>, TRUE),
                                pgm.top_level_funs_by_idx[top_fun_idx + 1], <<>>)
         [] OTHER -> Panic(s)

EvalCall(s, e) ==
    LET fun == e.fun
        args == e.args
        \* the arms of `match &fun.node` that yield the callee's value
        is_local == fun.t = "Var" /\ fun.var \in DOMAIN s.locals
        is_value == \/ is_local
                    \/ fun.t = "Var" /\ fun.var \notin DOMAIN pgm.top_level_funs
                    \/ fun.t \notin {"Var", "FieldSelect", "UpperVar"}
        Closure(callee) ==
            IF callee.k # "Val" THEN callee ELSE CallClosure(callee.s, callee.v, args)
        Method(o) ==
            LET object_tag == HeapGet(o.s.heap, o.v)
            IN IF o.k # "Val" THEN o
               ELSE IF object_tag + 1 \notin DOMAIN pgm.associated_funs THEN Panic(o.s)
               ELSE IF fun.field \notin DOMAIN pgm.associated_funs[object_tag + 1]
               THEN Panic(o.s)
               ELSE CallWith(EvalArgs(o.s, args, 1, <<>>, FALSE),
                             pgm.associated_funs[object_tag + 1][fun.field], <<o.v>>)
    IN IF is_value
       THEN Closure(IF is_local THEN Val(s, s.locals[fun.var]) ELSE eval(s, fun))
       ELSE CASE fun.t = "Var" ->
                    CallWith(EvalArgs(s, args, 1, <<>>, FALSE),
                             pgm.top_level_funs[fun.var], <<>>)
              [] fun.t = "FieldSelect" /\ fun.object.t = "UpperVar" ->
                    LET ty == fun.object.ty
                    IN IF ty \notin DOMAIN pgm.ty_cons THEN Panic(s)
                       ELSE IF IsUppercase(fun.field)
                       THEN allocate_object_from_names(s, ty, Some(fun.field), args)
                       ELSE LET tag == pgm.ty_cons[ty].type_tag
                            IN IF tag + 1 \notin DOMAIN pgm.associated_funs THEN Panic(s)
                               ELSE IF fun.field \notin DOMAIN pgm.associated_funs[tag + 1]
                               THEN Panic(s)
                               ELSE CallWith(EvalArgs(s, args, 1, <<>>, FALSE),
                                             pgm.associated_funs[tag + 1][fun.field], <<>>)
              [] fun.t = "FieldSelect" /\ fun.object.t # "UpperVar" ->
                    Method(eval(s, fun.object))
              [] fun.t = "UpperVar" -> allocate_object_from_names(s, fun.ty, None, args)

EvalInt(s, e) ==
    LET a == allocate_i32(s.heap, e.i) IN Val(WithHeap(s, a.heap), a.addr)

RECURSIVE EvalStringParts(_, _, _, _)
\* The loop over the parts of a string, from part i on.
EvalStringParts(s, parts, i, bytes) ==
    IF i > Len(parts)
    THEN LET a == allocate_str(s.heap, bytes) IN Val(WithHeap(s, a.heap), a.addr)
    ELSE IF parts[i].k = "Str" THEN EvalStringParts(s, parts, i + 1, bytes \o parts[i].str)
    ELSE LET Str(r) ==
                 IF r.k # "Val" THEN Panic(r.s)
                 ELSE IF HeapGet(r.s.heap, r.v) # STR_TYPE_TAG THEN Panic(r.s)
                 ELSE EvalStringParts(r.s, parts, i + 1, bytes \o str_bytes(r.s.heap, r.v))
             Part(r) ==
                 IF r.k # "Val" THEN r ELSE Str(call_method(r.s, r.v, "toStr", <<>>))
         IN Part(eval(s, parts[i].expr))

EvalString(s, e) == EvalStringParts(s, e.parts, 1, <<>>)

\* EvalArrayIndex with the index compared as a signed integer.
EvalArrayIndexSigned(s, e) ==
    LET Index(a, r) ==
            LET index == HeapGet(r.s.heap, r.v + 1)
                array_len == HeapGet(r.s.heap, a.v + 1)
            IN IF r.k # "Val" THEN r
               ELSE IF AsI32(index) >= array_len THEN Panic(r.s)
               ELSE Val(Log(r.s, ReadEvent(a.v + 2 + index, r.s)),
                        HeapGet(r.s.heap, a.v + 2 + index))
        Array(a) == IF a.k # "Val" THEN a ELSE Index(a, eval(a.s, e.index))
    IN Array(eval(s, e.array))

\* The index is the payload word of the index value and the length the
\* first payload word of the array value, compared as unsigned words.
EvalArrayIndex(s, e) ==
    LET Index(a, r) ==
            LET index == HeapGet(r.s.heap, r.v + 1)
                array_len == HeapGet(r.s.heap, a.v + 1)
            IN IF r.k # "Val" THEN r
               ELSE IF index >= array_len THEN Panic(r.s)
               ELSE Val(Log(r.s, ReadEvent(a.v + 2 + index, r.s)),
                        HeapGet(r.s.heap, a.v + 2 + index))
        Array(a) == IF a.k # "Val" THEN a ELSE Index(a, eval(a.s, e.index))
    IN Array(eval(s, e.array))

EvalSelf(s, e) ==
    IF "self" \in DOMAIN s.locals THEN Val(s, s.locals["self"]) ELSE Panic(s)

\* eq: the result's v is 1 for true and 0 for false.
eq(s, val1, val2) ==
    LET Checked(r) ==
            IF r.k # "Val" THEN r
            ELSE IF debug /\ r.v \notin {pgm.true_alloc, pgm.false_alloc} THEN Panic(r.s)
            ELSE Val(r.s, IF r.v = pgm.true_alloc THEN 1 ELSE 0)
    IN Checked(call_method(s, val1, "__eq", <<val2>>))

\* std::cmp::Ordering
OrdLess == 0
OrdEqual == 1
OrdGreater == 2

\* The value r that __cmp returned, noted in the trace.
Compared(r) == IF r.k # "Val" THEN r ELSE [r EXCEPT !.s = Log(r.s, CmpEvent(r.v, r.s))]

\* cmp: the result's v is the Ordering.
cmp(s, val1, val2) ==
    LET Checked(r) ==
            IF r.k # "Val" THEN r
            ELSE IF "Ordering" \notin DOMAIN pgm.ty_cons THEN Panic(r.s)
            ELSE LET ret_tag == HeapGet(r.s.heap, r.v)
                     ordering_ty_con == pgm.ty_cons["Ordering"]
                     less == FindConstr(ordering_ty_con.value_constrs, "Less")
                     equal == FindConstr(ordering_ty_con.value_constrs, "Equal")
                     greater == FindConstr(ordering_ty_con.value_constrs, "Greater")
                 IN IF Len(ordering_ty_con.value_constrs) # 3 THEN Panic(r.s)
                    ELSE IF less < 0 \/ equal < 0 \/ greater < 0 THEN Panic(r.s)
                    ELSE IF ret_tag = ordering_ty_con.type_tag + less THEN Val(r.s, OrdLess)
                    ELSE IF ret_tag = ordering_ty_con.type_tag + equal THEN Val(r.s, OrdEqual)
                    ELSE IF ret_tag = ordering_ty_con.type_tag + greater
                    THEN Val(r.s, OrdGreater)
                    ELSE Panic(r.s)
    IN Checked(Compared(call_method(s, val1, "__cmp", <<val2>>)))

MethodOfOp(op) ==
    CASE op = "Add" -> "__add"
      [] op = "Subtract" -> "__sub"
      [] op = "Multiply" -> "__mul"
      [] op = "And" -> "__and"
      [] op = "Or" -> "__or"

\* BoolOfOp with `<=` and `>=` as `<` and `>`.
BoolOfOpStrict(op, x) ==
    CASE op = "Equal" -> x = 1
      [] op = "NotEqual" -> ~(x = 1)
      [] op = "Lt" -> x = OrdLess
      [] op = "Gt" -> x = OrdGreater
      [] op = "LtEq" -> x = OrdLess
      [] op = "GtEq" -> x = OrdGreater

\* The arms of `match op` that return a Bool.
BoolOfOp(op, x) ==
    CASE op = "Equal" -> x = 1
      [] op = "NotEqual" -> ~(x = 1)
      [] op = "Lt" -> x = OrdLess
      [] op = "Gt" -> x = OrdGreater
      [] op = "LtEq" -> x \in {OrdLess, OrdEqual}
      [] op = "GtEq" -> x \in {OrdGreater, OrdEqual}

\* EvalBinOp without the val! on the left operand.
EvalBinOpNoVal(s, e) ==
    LET Bool(c) == IF c.k # "Val" THEN c ELSE Val(c.s, bool_alloc(BoolOfOp(e.op, c.v)))
        Right(l, r) ==
            IF r.k # "Val" THEN r
            ELSE IF e.op \in {"Equal", "NotEqual"} THEN Bool(eq(r.s, l.v, r.v))
            ELSE IF e.op \in {"Lt", "Gt", "LtEq", "GtEq"} THEN Bool(cmp(r.s, l.v, r.v))
            ELSE call_method(r.s, l.v, MethodOfOp(e.op), <<r.v>>)
        Left(l) == Right(l, eval(l.s, e.right))
    IN Left(eval(s, e.left))

\* EvalBinOp with `==` and `!=` returning what __eq returned.
EvalBinOpRaw(s, e) ==
    LET Bool(c) == IF c.k # "Val" THEN c ELSE Val(c.s, bool_alloc(BoolOfOp(e.op, c.v)))
        Right(l, r) ==
            IF r.k # "Val" THEN r
            ELSE IF e.op \in {"Equal", "NotEqual"}
            THEN call_method(r.s, l.v, "__eq", <<r.v>>)
            ELSE IF e.op \in {"Lt", "Gt", "LtEq", "GtEq"} THEN Bool(cmp(r.s, l.v, r.v))
            ELSE call_method(r.s, l.v, MethodOfOp(e.op), <<r.v>>)
        Left(l) == IF l.k # "Val" THEN l ELSE Right(l, eval(l.s, e.right))
    IN Left(eval(s, e.left))

EvalBinOp(s, e) ==
    LET Bool(c) == IF c.k # "Val" THEN c ELSE Val(c.s, bool_alloc(BoolOfOp(e.op, c.v)))
        Right(l, r) ==
            IF r.k # "Val" THEN r
            ELSE IF e.op \in {"Equal", "NotEqual"} THEN Bool(eq(r.s, l.v, r.v))
            ELSE IF e.op \in {"Lt", "Gt", "LtEq", "GtEq"} THEN Bool(cmp(r.s, l.v, r.v))
            ELSE call_method(r.s, l.v, MethodOfOp(e.op), <<r.v>>)
        Left(l) == IF l.k # "Val" THEN l ELSE Right(l, eval(l.s, e.right))
    IN Left(eval(s, e.left))

EvalUnOp(s, e) ==
    LET Not(r) ==
            IF r.k # "Val" THEN r
            ELSE IF debug /\ r.v \notin {pgm.true_alloc, pgm.false_alloc} THEN Panic(r.s)
            ELSE Val(r.s, bool_alloc(r.v = pgm.false_alloc))
    IN Not(eval(s, e.expr))

RECURSIVE EvalRecordFields(_, _, _, _, _)
\* The loops that evaluate the field expressions of a record literal and
\* store them: `order` lists, for each payload slot, the index of the
\* expression stored there; the slots are filled from slot i on.
EvalRecordFields(s, exprs, order, record, i) ==
    IF i > Len(order) THEN Val(s, record)
    ELSE LET Store(r) ==
                 IF r.k # "Val" THEN r
                 ELSE EvalRecordFields(
                          WithHeap(r.s, HeapSet(r.s.heap, record + (i - 1) + 1, r.v)),
                          exprs, order, record, i + 1)
         IN Store(eval(s, exprs[order[i]].node))

\* The field expressions stored in the order written.
FieldOrderAsWritten(exprs) == [k \in DOMAIN exprs |-> k]

\* For a named record literal: the sorted names, and for each of them the
\* first expression with that name.
SortedFieldOrder(exprs) ==
    LET names == SortNames({Unwrap(exprs[i].name) : i \in DOMAIN exprs})
    IN [k \in DOMAIN names |->
           CHOOSE i \in DOMAIN exprs :
              /\ exprs[i].name = Some(names[k])
              /\ \A j \in DOMAIN exprs : exprs[j].name = Some(names[k]) => i <= j]

TextualFieldOrder(exprs) == [k \in DOMAIN exprs |-> k]

EvalRecord(s, e) ==
    LET exprs == e.fields
        shape == from_named_things(exprs)
    IN IF shape = ShapePanic \/ shape \notin DOMAIN pgm.record_ty_tags THEN Panic(s)
       ELSE LET type_tag == pgm.record_ty_tags[shape]
                a == HeapAllocate(s.heap, Len(exprs) + 1)
                s1 == Log(WithHeap(s, HeapSet(a.heap, a.addr, type_tag)),
                          AllocEvent(type_tag, a.addr, Len(exprs) + 1, s))
            IN EvalRecordFields(s1, exprs,
                                IF Len(exprs) # 0 /\ IsSome(exprs[1].name)
                                THEN SortedFieldOrder(exprs)
                                ELSE TextualFieldOrder(exprs),
                                a.addr, 1)

EvalRange(s, e) == Panic(s)

EvalReturn(s, e) ==
    LET Return(r) == IF r.k # "Val" THEN r ELSE Ret(r.s, r.v)
    IN Return(eval(s, e.expr))

RECURSIVE EvalMatchAltsReversed(_, _, _, _)
\* The loop over the alternatives run from the last alternative to the first.
EvalMatchAltsReversed(s, alts, scrut, i) ==
    IF i > Len(alts) THEN Panic(s)
    ELSE LET j == Len(alts) + 1 - i
             Tried(b) == Log(WithHeap(s, b.heap), TryEvent(j, alts[j].pattern, scrut, b, s))
             Bound(b) ==
                 IF b.panic THEN Panic(Tried(b))
                 ELSE IF b.ok
                 THEN LET Arm(a) == exec(Log(a, ArmEvent(j, a)), alts[j].rhs)
                      IN Arm(WithLocals(Tried(b), MapExtend(s.locals, b.binds)))
                 ELSE EvalMatchAltsReversed(Tried(b), alts, scrut, i + 1)
         IN Bound(try_bind_pat(s.heap, alts[j].pattern, scrut))

\* The result r of a `match` or `if`, with the environment it leaves noted
\* in the trace.
Leaving(r) == IF r.k # "Val" THEN r ELSE [r EXCEPT !.s = Log(r.s, LeaveEvent(r.s))]

RECURSIVE EvalMatchAltsScoped(_, _, _, _)
\* EvalMatchAlts with the bindings of the pattern dropped after the arm.
EvalMatchAltsScoped(s, alts, scrut, i) ==
    IF i > Len(alts) THEN Panic(s)
    ELSE IF IsSome(alts[i].guard) THEN Panic(s)
    ELSE LET Tried(b) == Log(WithHeap(s, b.heap), TryEvent(i, alts[i].pattern, scrut, b, s))
             Scoped(r) == [r EXCEPT !.s = WithLocals(r.s, s.locals)]
             Bound(b) ==
                 IF b.panic THEN Panic(Tried(b))
                 ELSE IF b.ok
                 THEN LET Arm(a) == Scoped(exec(Log(a, ArmEvent(i, a)), alts[i].rhs))
                      IN Arm(WithLocals(Tried(b), MapExtend(s.locals, b.binds)))
                 ELSE EvalMatchAltsScoped(Tried(b), alts, scrut, i + 1)
         IN Bound(try_bind_pat(s.heap, alts[i].pattern, scrut))

RECURSIVE EvalMatchAltsLeaky(_, _, _, _)
\* EvalMatchAlts with q left bound to the scrutinee by an alternative that
\* failed.
EvalMatchAltsLeaky(s, alts, scrut, i) ==
    IF i > Len(alts) THEN Panic(s)
    ELSE IF IsSome(alts[i].guard) THEN Panic(s)
    ELSE LET Tried(b) == Log(WithHeap(s, b.heap), TryEvent(i, alts[i].pattern, scrut, b, s))
             Leak(a) == WithLocals(a, MapInsert(a.locals, "q", scrut))
             Bound(b) ==
                 IF b.panic THEN Panic(Tried(b))
                 ELSE IF b.ok
                 THEN LET Arm(a) == exec(Log(a, ArmEvent(i, a)), alts[i].rhs)
                      IN Arm(WithLocals(Tried(b), MapExtend(s.locals, b.binds)))
                 ELSE EvalMatchAltsLeaky(Leak(Tried(b)), alts, scrut, i + 1)
         IN Bound(try_bind_pat(s.heap, alts[i].pattern, scrut))

RECURSIVE EvalMatchAlts(_, _, _, _)
\* The loop over the alternatives, from alternative i on.
EvalMatchAlts(s, alts, scrut, i) ==
    IF i > Len(alts) THEN Panic(s)
    ELSE IF IsSome(alts[i].guard) THEN Panic(s)
    ELSE LET Tried(b) == Log(WithHeap(s, b.heap), TryEvent(i, alts[i].pattern, scrut, b, s))
             Bound(b) ==
                 IF b.panic THEN Panic(Tried(b))
                 ELSE IF b.ok
                 THEN LET Arm(a) == exec(Log(a, ArmEvent(i, a)), alts[i].rhs)
                      IN Arm(WithLocals(Tried(b), MapExtend(s.locals, b.binds)))
                 ELSE EvalMatchAlts(Tried(b), alts, scrut, i + 1)
         IN Bound(try_bind_pat(s.heap, alts[i].pattern, scrut))

EvalMatch(s, e) ==
    LET Scrutinee(r) == IF r.k # "Val" THEN r ELSE Leaving(EvalMatchAlts(r.s, e.alts, r.v, 1))
    IN Scrutinee(eval(s, e.scrutinee))

RECURSIVE EvalIfBranches(_, _, _)
\* The loop over the branches, from branch i on, and the else branch.
EvalIfBranches(s, e, i) ==
    IF i > Len(e.branches)
    THEN IF IsSome(e.else_branch) THEN exec(s, Unwrap(e.else_branch)) ELSE Val(s, 0)
    ELSE LET Cond(r) ==
                 IF r.k # "Val" THEN r
                 ELSE IF debug /\ r.v \notin {pgm.true_alloc, pgm.false_alloc}
                 THEN Panic(r.s)
                 ELSE IF r.v = pgm.true_alloc THEN exec(r.s, e.branches[i].stmts)
                 ELSE EvalIfBranches(r.s, e, i + 1)
         IN Cond(eval(s, e.branches[i].cond))

EvalIf(s, e) == Leaving(EvalIfBranches(s, e, 1))

EvalExpr(s, e) ==
    CASE e.t = "Var" -> EvalVar(s, e)
      [] e.t = "UpperVar" -> EvalUpperVar(s, e)
      [] e.t = "FieldSelect" -> EvalFieldSelect(s, e)
      [] e.t = "ConstrSelect" -> EvalConstrSelect(s, e)
      [] e.t = "Call" -> EvalCall(s, e)
      [] e.t = "Int" -> EvalInt(s, e)
      [] e.t = "String" -> EvalString(s, e)
      [] e.t = "Self" -> EvalSelf(s, e)
      [] e.t = "BinOp" -> EvalBinOp(s, e)
      [] e.t = "UnOp" -> EvalUnOp(s, e)
      [] e.t = "ArrayIndex" -> EvalArrayIndex(s, e)
      [] e.t = "Record" -> EvalRecord(s, e)
      [] e.t = "Range" -> EvalRange(s, e)
      [] e.t = "Return" -> EvalReturn(s, e)
      [] e.t = "Match" -> EvalMatch(s, e)
      [] e.t = "If" -> EvalIf(s, e)

\* The history of an evaluation of e entered in state s, and of a run of
\* statements entered in state s.
LogExit(r, e, s) == [r EXCEPT !.s = Log([r.s EXCEPT !.level = s.level], ExitEvent(e, r, s))]
LogRet(r, s) ==
    IF r.k = "Ret" THEN [r EXCEPT !.s = Log(r.s, ExecEvent(r.v, s.depth, s.level))] ELSE r


(***************************************************************************)
(* assign and the statements of exec                                       *)
(***************************************************************************)
\* assign's result once the heap and the environment are updated.
Assigned(s, val) == Val(Log(s, AssignedEvent(s)), val)
\* The value r of the object expression, noted in the trace.
Targeted(r, lhs, val, op) ==
    IF r.k # "Val" THEN r
    ELSE [r EXCEPT !.s = Log(r.s, AssignEvent(lhs, op, r.v, val, r.s))]
\* AssignVar, without the check that the variable is bound.
AssignVarInserts(s, lhs, val, op) ==
    IF op # "Eq" THEN Panic(s)
    ELSE Assigned(WithLocals(s, MapInsert(s.locals, lhs.var, val)), val)
\* The Expr::Var arm of assign.
AssignVar(s, lhs, val, op) ==
    IF op # "Eq" THEN Panic(s)
    ELSE IF lhs.var \notin DOMAIN s.locals THEN Panic(s)
    ELSE Assigned(WithLocals(s, MapInsert(s.locals, lhs.var, val)), val)

\* assign, writing the word after the field.
\* assign with the field read in the heap as it was before the object
\* expression was evaluated.
assignReadsEarly(s, lhs, val, op) ==
    LET Store(r, field_idx, new_val) ==
            IF new_val.k # "Val" THEN new_val
            ELSE Assigned(WithHeap(new_val.s,
                                   HeapSet(new_val.s.heap, r.v + 1 + field_idx, new_val.v)),
                          val)
        Object(r) ==
            LET object == r.v
                object_tag == HeapGet(r.s.heap, object)
            IN IF r.k # "Val" THEN r
               ELSE IF ~ValidTag(object_tag) THEN Panic(r.s)
               ELSE LET object_fields == get_tag_fields(object_tag)
                        field_idx == FindName(object_fields.names, lhs.field)
                        field_value == HeapGet(s.heap, object + 1 + field_idx)
                    IN IF object_fields.f = "Unnamed" \/ field_idx < 0 THEN Panic(r.s)
                       ELSE Store(r, field_idx,
                                  CASE op = "Eq" -> Val(r.s, val)
                                    [] op = "PlusEq" ->
                                          call_method(r.s, field_value, "__add", <<val>>)
                                    [] op = "MinusEq" ->
                                          call_method(r.s, field_value, "__sub", <<val>>))
    IN CASE lhs.t = "Var" -> AssignVar(Log(s, AssignEvent(lhs, op, 0, val, s)), lhs, val, op)
         [] lhs.t = "FieldSelect" -> Object(Targeted(eval(s, lhs.object), lhs, val, op))
         [] OTHER -> Panic(s)

assignNextWord(s, lhs, val, op) ==
    LET Store(r, field_idx, new_val) ==
            IF new_val.k # "Val" THEN new_val
            ELSE Assigned(WithHeap(new_val.s,
                                   HeapSet(new_val.s.heap, r.v + 2 + field_idx, new_val.v)),
                          val)
        Object(r) ==
            LET object == r.v
                object_tag == HeapGet(r.s.heap, object)
            IN IF r.k # "Val" THEN r
               ELSE IF ~ValidTag(object_tag) THEN Panic(r.s)
               ELSE LET object_fields == get_tag_fields(object_tag)
                        field_idx == FindName(object_fields.names, lhs.field)
                        field_value == HeapGet(r.s.heap, object + 1 + field_idx)
                    IN IF object_fields.f = "Unnamed" \/ field_idx < 0 THEN Panic(r.s)
                       ELSE Store(r, field_idx,
                                  CASE op = "Eq" -> Val(r.s, val)
                                    [] op = "PlusEq" ->
                                          call_method(r.s, field_value, "__add", <<val>>)
                                    [] op = "MinusEq" ->
                                          call_method(r.s, field_value, "__sub", <<val>>))
    IN CASE lhs.t = "Var" -> AssignVar(Log(s, AssignEvent(lhs, op, 0, val, s)), lhs, val, op)
         [] lhs.t = "FieldSelect" -> Object(Targeted(eval(s, lhs.object), lhs, val, op))
         [] OTHER -> Panic(s)

assign(s, lhs, val, op) ==
    LET Store(r, field_idx, new_val) ==
            IF new_val.k # "Val" THEN new_val
            ELSE Assigned(WithHeap(new_val.s,
                                   HeapSet(new_val.s.heap, r.v + 1 + field_idx, new_val.v)),
                          val)
        Object(r) ==
            LET object == r.v
                object_tag == HeapGet(r.s.heap, object)
            IN IF r.k # "Val" THEN r
               ELSE IF ~ValidTag(object_tag) THEN Panic(r.s)
               ELSE LET object_fields == get_tag_fields(object_tag)
                        field_idx == FindName(object_fields.names, lhs.field)
                        field_value == HeapGet(r.s.heap, object + 1 + field_idx)
                    IN IF object_fields.f = "Unnamed" \/ field_idx < 0 THEN Panic(r.s)
                       ELSE Store(r, field_idx,
                                  CASE op = "Eq" -> Val(r.s, val)
                                    [] op = "PlusEq" ->
                                          call_method(r.s, field_value, "__add", <<val>>)
                                    [] op = "MinusEq" ->
                                          call_method(r.s, field_value, "__sub", <<val>>))
    IN CASE lhs.t = "Var" -> AssignVar(Log(s, AssignEvent(lhs, op, 0, val, s)), lhs, val, op)
         [] lhs.t = "FieldSelect" -> Object(Targeted(eval(s, lhs.object), lhs, val, op))
         [] OTHER -> Panic(s)

ExecLet(s, stmt) ==
    LET Bind(r, b) ==
            IF ~b.ok THEN Panic(WithHeap(r.s, b.heap))
            ELSE Val([r.s EXCEPT !.heap = b.heap, !.locals = MapExtend(r.s.locals, b.binds)],
                     r.v)
        Rhs(r) == IF r.k # "Val" THEN r ELSE Bind(r, try_bind_pat(r.s.heap, stmt.lhs, r.v))
    IN Rhs(eval(s, stmt.rhs))

ExecAssign(s, stmt) ==
    LET Rhs(r) == IF r.k # "Val" THEN r ELSE assign(r.s, stmt.lhs, r.v, stmt.op)
    IN Rhs(eval(s, stmt.rhs))

ExecExpr(s, stmt) == eval(s, stmt.expr)

\* The bound on the iterations of one `while` statement.
MaxIter == 3

\* The value c of the condition, noted in the trace.
WhileCond(c) ==
    IF c.k # "Val" THEN c ELSE [c EXCEPT !.s = Log(c.s, WhileEvent("cond", c.v, c.s))]

RECURSIVE WhileLoop(_, _, _)
\* The `loop` of Stmt::While, with n iterations left before the model gives up.
WhileLoop(s, stmt, n) ==
    LET Body(b) == IF b.k # "Val" THEN b ELSE WhileLoop(b.s, stmt, n - 1)
        Cond(c) ==
            IF c.k # "Val" THEN c
            ELSE IF debug /\ c.v \notin {pgm.true_alloc, pgm.false_alloc} THEN Panic(c.s)
            ELSE IF c.v = pgm.false_alloc THEN Val(Log(c.s, WhileEvent("wend", 0, c.s)), 0)
            ELSE IF n = 0 THEN Diverge(c.s)
            ELSE Body(exec(Log(c.s, WhileEvent("wbody", c.v, c.s)), stmt.body))
    IN Cond(WhileCond(eval(s, stmt.cond)))

ExecWhile(s, stmt) == WhileLoop(s, stmt, MaxIter)

RECURSIVE ForLoopKeepOnRet(_, _, _, _)
\* The loop of Stmt::For without the `locals.remove` of the Ret arm.
ForLoopKeepOnRet(s, stmt, i, to) ==
    IF i >= to THEN Val(WithLocals(s, MapRemove(s.locals, stmt.var)), 0)
    ELSE LET a == allocate_i32(s.heap, i)
             Left(b) == Log(b.s, ForEvent("body", stmt.var, b.s))
             Body(b) ==
                 IF b.k = "Ret" THEN Ret(Left(b), b.v)
                 ELSE IF b.k # "Val" THEN b
                 ELSE ForLoopKeepOnRet(Left(b), stmt, i + 1, to)
         IN Body(exec([s EXCEPT !.heap = a.heap,
                                !.locals = MapInsert(s.locals, stmt.var, a.addr)],
                      stmt.body))

RECURSIVE ForLoop(_, _, _, _)
\* `for i in from..to` (to exclusive here: the inclusive range is from..to+1).
ForLoop(s, stmt, i, to) ==
    IF i >= to THEN Val(WithLocals(s, MapRemove(s.locals, stmt.var)), 0)
    ELSE LET a == allocate_i32(s.heap, i)
             Left(b) == Log(b.s, ForEvent("body", stmt.var, b.s))
             Body(b) ==
                 IF b.k = "Ret"
                 THEN Ret(WithLocals(Left(b), MapRemove(b.s.locals, stmt.var)), b.v)
                 ELSE IF b.k # "Val" THEN b
                 ELSE ForLoop(Left(b), stmt, i + 1, to)
             Start(b) == Log(b, IterEvent(stmt.var, i, a.addr, s.heap.hp, b))
         IN Body(exec(Start([s EXCEPT !.heap = a.heap,
                                      !.locals = MapInsert(s.locals, stmt.var, a.addr)]),
                      stmt.body))

\* ExecFor with every range taken as exclusive.
ExecForExclusive(s, stmt) ==
    LET Done(r) ==
            IF r.k \in {"Val", "Ret"}
            THEN [r EXCEPT !.s = Log(r.s, ForEvent("for", stmt.var, r.s))]
            ELSE r
        To(f, t) ==
            IF t.k # "Val" THEN t
            ELSE IF debug /\ HeapGet(t.s.heap, t.v) # I32_TYPE_TAG THEN Panic(t.s)
            ELSE Done(ForLoop(Log(t.s, ForEvent("loop", stmt.var, t.s)), stmt,
                              AsI32(HeapGet(f.s.heap, f.v + 1)),
                              AsI32(HeapGet(t.s.heap, t.v + 1))))
        From(f) ==
            IF f.k # "Val" THEN f
            ELSE IF debug /\ HeapGet(f.s.heap, f.v) # I32_TYPE_TAG THEN Panic(f.s)
            ELSE To(f, eval(f.s, stmt.expr.to))
    IN IF stmt.expr.t # "Range" THEN Panic(s)
       ELSE From(eval(Log(s, HeadEvent(stmt, s)), stmt.expr.from))

ExecFor(s, stmt) ==
    LET Done(r) ==
            IF r.k \in {"Val", "Ret"}
            THEN [r EXCEPT !.s = Log(r.s, ForEvent("for", stmt.var, r.s))]
            ELSE r
        To(f, t) ==
            IF t.k # "Val" THEN t
            ELSE IF debug /\ HeapGet(t.s.heap, t.v) # I32_TYPE_TAG THEN Panic(t.s)
            ELSE LET from == AsI32(HeapGet(f.s.heap, f.v + 1))
                     to == AsI32(HeapGet(t.s.heap, t.v + 1))
                 IN Done(ForLoop(Log(t.s, ForEvent("loop", stmt.var, t.s)), stmt, from,
                                 IF stmt.expr.inclusive THEN to + 1 ELSE to))
        From(f) ==
            IF f.k # "Val" THEN f
            ELSE IF debug /\ HeapGet(f.s.heap, f.v) # I32_TYPE_TAG THEN Panic(f.s)
            ELSE To(f, eval(f.s, stmt.expr.to))
    IN IF stmt.expr.t # "Range" THEN Panic(s)
       ELSE From(eval(Log(s, HeadEvent(stmt, s)), stmt.expr.from))

ExecStmt(s, stmt) ==
    CASE stmt.s = "Let" -> ExecLet(s, stmt)
      [] stmt.s = "Assign" -> ExecAssign(s, stmt)
      [] stmt.s = "Expr" -> ExecExpr(s, stmt)
      [] stmt.s = "While" -> ExecWhile(s, stmt)
      [] stmt.s = "For" -> ExecFor(s, stmt)

RECURSIVE ExecFrom(_, _, _, _)
\* The statement loop of exec, from statement i on.
ExecFrom(s, stmts, i, return_value_) ==
    IF i > Len(stmts) THEN Val(s, return_value_)
    ELSE LET Rest(r) == IF r.k # "Val" THEN r ELSE ExecFrom(r.s, stmts, i + 1, r.v)
         IN Rest(ExecStmt(s, stmts[i]))

\* call dispatches on the kind of function; eval logs the expression it
\* enters and exec runs the statements from the first, and both log a Ret.
Interp(s, x) ==
    CASE x.fn = "call" ->
            IF x.fun.kind = "Builtin" THEN call_builtin_fun(s, x.fun.builtin, x.args)
            ELSE call_source_fun(s, Unwrap(x.fun.decl), x.args)
      [] x.fn = "eval" ->
            LogExit(EvalExpr([Log(s, EvalEvent(x.expr, s)) EXCEPT !.level = s.level + 1],
                             x.expr),
                    x.expr, s)
      [] x.fn = "exec" -> LogRet(ExecFrom(s, x.stmts, 1, 0), s)

(***************************************************************************)
(* The syntax of programs                                                  *)
(***************************************************************************)
EInt(i) == [t |-> "Int", i |-> i]
EVar(v) == [t |-> "Var", var |-> v]
EString(parts) == [t |-> "String", parts |-> parts]
StrPart(str) == [k |-> "Str", str |-> str]
ExprPart(e) == [k |-> "Expr", expr |-> e]
EUpperVar(ty) == [t |-> "UpperVar", ty |-> ty]
ESelf == [t |-> "Self"]
EFieldSelect(o, f) == [t |-> "FieldSelect", object |-> o, field |-> f]
EConstrSelect(ty, c) == [t |-> "ConstrSelect", ty |-> ty, constr |-> c]
ECall(f, args) == [t |-> "Call", fun |-> f, args |-> args]
Arg(e) == [name |-> None, expr |-> e]
NamedArg(n, e) == [name |-> Some(n), expr |-> e]
EBinOp(op, l, r) == [t |-> "BinOp", op |-> op, left |-> l, right |-> r]
EArrayIndex(a, i) == [t |-> "ArrayIndex", array |-> a, index |-> i]
ENot(e) == [t |-> "UnOp", op |-> "Not", expr |-> e]
ERecord(fields) == [t |-> "Record", fields |-> fields]
Field(n, x) == [name |-> Some(n), node |-> x]
Positional(x) == [name |-> None, node |-> x]
ERange(from, to, inclusive) ==
    [t |-> "Range", from |-> from, to |-> to, inclusive |-> inclusive]
EReturn(e) == [t |-> "Return", expr |-> e]
EMatch(scrutinee, alts) == [t |-> "Match", scrutinee |-> scrutinee, alts |-> alts]
Alt(pattern, rhs) == [pattern |-> pattern, guard |-> None, rhs |-> rhs]
EIf(branches, else_branch) == [t |-> "If", branches |-> branches, else_branch |-> else_branch]
Branch(cond, stmts) == [cond |-> cond, stmts |-> stmts]

PVar(v) == [p |-> "Var", var |-> v]
PIgnore == [p |-> "Ignore"]
PConstr(ty, constr, fields) == [p |-> "Constr", type_ |-> ty, constr |-> constr, fields |-> fields]
PRecord(fields) == [p |-> "Record", fields |-> fields]
PStr(str) == [p |-> "Str", str |-> str]
PStrPfx(pfx, var) == [p |-> "StrPfx", pfx |-> pfx, var |-> var]
POr(p1, p2) == [p |-> "Or", pat1 |-> p1, pat2 |-> p2]

SLet(lhs, rhs) == [s |-> "Let", lhs |-> lhs, ty |-> None, rhs |-> rhs]
SLetTy(lhs, ty, rhs) == [s |-> "Let", lhs |-> lhs, ty |-> Some(ty), rhs |-> rhs]
SAssign(lhs, op, rhs) == [s |-> "Assign", lhs |-> lhs, op |-> op, rhs |-> rhs]
SExpr(e) == [s |-> "Expr", expr |-> e]
SFor(var, range, body) == [s |-> "For", var |-> var, ty |-> None, expr |-> range, body |-> body]
SWhile(cond, body) == [s |-> "While", cond |-> cond, body |-> body]

TNamed(name) == [t |-> "Named", name |-> name, args |-> <<>>]
TRecord(fields) == [t |-> "RecordTy", fields |-> fields]

NoFields == [cf |-> "Empty", named |-> <<>>, unnamed |-> <<>>]
NamedTys(fields) == [cf |-> "Named", named |-> fields, unnamed |-> <<>>]
UnnamedTys(tys) == [cf |-> "Unnamed", named |-> <<>>, unnamed |-> tys]
Param(name, ty) == [name |-> name, ty |-> ty]
Constr(name, fields) == [name |-> name, fields |-> fields]
SumType(name, constrs) ==
    [d |-> "Type", name |-> name, rhs |-> [k |-> "Sum", constrs |-> constrs, fields |-> NoFields]]
ProductType(name, fields) ==
    [d |-> "Type", name |-> name, rhs |-> [k |-> "Product", constrs |-> <<>>, fields |-> fields]]
FunDecl(type_name, name, self_, params, body) ==
    [d |-> "Fun", type_name |-> type_name, name |-> name, self_ |-> self_,
     params |-> params, return_ty |-> None, body |-> body]

(***************************************************************************)
(* The programs of the model                                               *)
(***************************************************************************)
I32Ty == TNamed("I32")
PrimTypes ==
    <<SumType("I32", <<>>), SumType("Str", <<>>), SumType("StrView", <<>>),
      SumType("Array", <<>>)>>
BoolType == SumType("Bool", <<Constr("False", NoFields), Constr("True", NoFields)>>)
OrderingType ==
    SumType("Ordering",
            <<Constr("Less", NoFields), Constr("Equal", NoFields), Constr("Greater", NoFields)>>)
OptType ==
    SumType("Opt",
            <<Constr("Some", UnnamedTys(<<I32Ty>>)), Constr("Nil", NoFields),
              Constr("At", UnnamedTys(<<I32Ty, I32Ty>>))>>)
\* type Sh: Box(y: Opt, x: I32), Dot
ShType ==
    SumType("Sh", <<Constr("Box", NamedTys(<<Param("y", TNamed("Opt")), Param("x", I32Ty)>>)),
                    Constr("Dot", NoFields)>>)
PtType == ProductType("Pt", NamedTys(<<Param("x", I32Ty), Param("y", I32Ty)>>))
UnitType == ProductType("Unit", NoFields)

\* The type declarations, in two declaration orders.
TypeDeclLists ==
    {PrimTypes \o <<BoolType, OrderingType, OptType, ShType, PtType, UnitType>>,
     PrimTypes \o <<OptType, UnitType, PtType, ShType, OrderingType, BoolType>>}

BoolTrue == EConstrSelect("Bool", "True")
BoolFalse == EConstrSelect("Bool", "False")
IntArg(n) == Arg(EInt(n))
CallFun(f, args) == ECall(EVar(f), args)
CallAssoc(ty, f, args) == ECall(EFieldSelect(EUpperVar(ty), f), args)
CallMethod(o, m, args) == ECall(EFieldSelect(o, m), args)
NewPt(x, y) == ECall(EUpperVar("Pt"), <<NamedArg("y", EInt(y)), NamedArg("x", EInt(x))>>)

\* fn id(a) { return a }
IdFun == FunDecl(None, "id", FALSE, <<Param("a", I32Ty)>>, <<SExpr(EReturn(EVar("a")))>>)
\* fn second(a, b) { b }
SecondFun ==
    FunDecl(None, "second", FALSE, <<Param("a", I32Ty), Param("b", I32Ty)>>,
            <<SExpr(EVar("b"))>>)
\* fn early(a) { let q = (return a) + 7; return 9 }
EarlyFun ==
    FunDecl(None, "early", FALSE, <<Param("a", I32Ty)>>,
            <<SLet(PVar("q"), EBinOp("Add", EReturn(EVar("a")), EInt(7))),
              SExpr(EReturn(EInt(9)))>>)
\* fn retarg(a) { second(return a, 8); 9 }
RetargFun ==
    FunDecl(None, "retarg", FALSE, <<Param("a", I32Ty)>>,
            <<SExpr(CallFun("second", <<Arg(EReturn(EVar("a"))), IntArg(8)>>)), SExpr(EInt(9))>>)
\* fn retif(a) { if a == 3 { return 10 } else { 11 }; 12 }
RetifFun ==
    FunDecl(None, "retif", FALSE, <<Param("a", I32Ty)>>,
            <<SExpr(EIf(<<Branch(EBinOp("Equal", EVar("a"), EInt(3)),
                                 <<SExpr(EReturn(EInt(10)))>>)>>,
                        Some(<<SExpr(EInt(11))>>))),
              SExpr(EInt(12))>>)
\* fn retmatch(a) { match Opt.Some(a) { Opt.Nil => 0, Opt.Some(q) => return q }; 13 }
RetmatchFun ==
    FunDecl(None, "retmatch", FALSE, <<Param("a", I32Ty)>>,
            <<SExpr(EMatch(CallAssoc("Opt", "Some", <<Arg(EVar("a"))>>),
                           <<Alt(PConstr("Opt", Some("Nil"), <<>>), <<SExpr(EInt(0))>>),
                             Alt(PConstr("Opt", Some("Some"), <<Positional(PVar("q"))>>),
                                 <<SExpr(EReturn(EVar("q")))>>)>>)),
              SExpr(EInt(13))>>)
\* fn retwhile(a) { while a == a { return a }; 14 }
RetwhileFun ==
    FunDecl(None, "retwhile", FALSE, <<Param("a", I32Ty)>>,
            <<SWhile(EBinOp("Equal", EVar("a"), EVar("a")), <<SExpr(EReturn(EVar("a")))>>),
              SExpr(EInt(14))>>)
\* fn retfor(a) { for i in 0..3 { return a }; 15 }
RetforFun ==
    FunDecl(None, "retfor", FALSE, <<Param("a", I32Ty)>>,
            <<SFor("i", ERange(EInt(0), EInt(3), FALSE), <<SExpr(EReturn(EVar("a")))>>),
              SExpr(EInt(15))>>)
\* fn readx() { x }
ReadxFun == FunDecl(None, "readx", FALSE, <<>>, <<SExpr(EVar("x"))>>)
\* fn bindx(a) { let x = a; for i in 0..1 { x = i }; let p = x; a }
BindxFun ==
    FunDecl(None, "bindx", FALSE, <<Param("a", I32Ty)>>,
            <<SLet(PVar("x"), EVar("a")),
              SFor("i", ERange(EInt(0), EInt(1), FALSE),
                   <<SAssign(EVar("x"), "Eq", EVar("i"))>>),
              SLet(PVar("p"), EVar("x")),
              SExpr(EVar("a"))>>)
\* fn getb(q: {b: I32, a: I32}) { return q.b }
GetbFun ==
    FunDecl(None, "getb", FALSE,
            <<Param("q", TRecord(<<Field("b", I32Ty), Field("a", I32Ty)>>))>>,
            <<SExpr(EReturn(EFieldSelect(EVar("q"), "b")))>>)
\* fn Pt.__eq(self, o) { return self.x }
PtEqFun ==
    FunDecl(Some("Pt"), "__eq", TRUE, <<Param("o", TNamed("Pt"))>>,
            <<SExpr(EReturn(EFieldSelect(ESelf, "x")))>>)
\* fn Pt.__cmp(self, o) { return o }
PtCmpFun ==
    FunDecl(Some("Pt"), "__cmp", TRUE, <<Param("o", TNamed("Ordering"))>>,
            <<SExpr(EReturn(EVar("o")))>>)
\* fn Pt.sum(self, a, b) { self.x + a + b }
PtSumFun ==
    FunDecl(Some("Pt"), "sum", TRUE, <<Param("a", I32Ty), Param("b", I32Ty)>>,
            <<SExpr(EBinOp("Add", EBinOp("Add", EFieldSelect(ESelf, "x"), EVar("a")),
                           EVar("b")))>>)
\* fn Pt.make(a, b) { Pt(x = a, y = b) }
PtMakeFun ==
    FunDecl(Some("Pt"), "make", FALSE, <<Param("a", I32Ty), Param("b", I32Ty)>>,
            <<SExpr(ECall(EUpperVar("Pt"),
                          <<NamedArg("x", EVar("a")), NamedArg("y", EVar("b"))>>))>>)
\* fn Opt.__eq(self, o) { return 1 == 1 }
OptEqFun ==
    FunDecl(Some("Opt"), "__eq", TRUE, <<Param("o", TNamed("Opt"))>>,
            <<SExpr(EReturn(EBinOp("Equal", EInt(1), EInt(1))))>>)
\* fn Opt.__cmp(self, o) { 1.__cmp(2) }
OptCmpFun ==
    FunDecl(Some("Opt"), "__cmp", TRUE, <<Param("o", TNamed("Opt"))>>,
            <<SExpr(CallMethod(EInt(1), "__cmp", <<IntArg(2)>>))>>)

FunDecls ==
    <<IdFun, SecondFun, EarlyFun, RetargFun, RetifFun, RetmatchFun, RetwhileFun, RetforFun,
      ReadxFun, BindxFun, GetbFun, PtEqFun, PtCmpFun, PtSumFun, PtMakeFun, OptEqFun,
      OptCmpFun>>

MainFun(body) == FunDecl(None, "main", FALSE, <<Param("input", TNamed("Str"))>>, body)

\* The bytes of the input string, "hi".
Input == <<104, 105>>

LetInt(v, n) == SLet(PVar(v), EInt(n))
Rec2(n1, e1, n2, e2) == ERecord(<<Field(n1, e1), Field(n2, e2)>>)
Pat2(n1, v1, n2, v2) == PRecord(<<Field(n1, PVar(v1)), Field(n2, PVar(v2))>>)
Range2(from, to) == ERange(EInt(from), EInt(to), FALSE)
OptAt == EConstrSelect("Opt", "At")

\* Bodies of main that produce values of nullary constructors.
NullaryBodies ==
    {<<SExpr(BoolTrue)>>,
     <<SExpr(BoolFalse)>>,
     <<SExpr(EConstrSelect("Opt", "Nil"))>>,
     <<SExpr(CallAssoc("Opt", "Nil", <<>>))>>,
     <<SExpr(ECall(EUpperVar("Unit"), <<>>))>>,
     <<SLet(PVar("c"), EUpperVar("Unit")), SExpr(CallFun("c", <<>>))>>,
     <<SExpr(EIf(<<Branch(BoolTrue, <<SExpr(EInt(1))>>)>>, Some(<<SExpr(EInt(2))>>)))>>,
     <<SWhile(BoolFalse, <<>>)>>}

\* Bodies of main with a `return` nested in a callee or in main itself.
ReturnBodies ==
    {<<SLet(PVar("y"), CallFun(f, <<IntArg(3)>>)), SExpr(EBinOp("Add", EVar("y"), EInt(1)))>> :
        f \in {"id", "early", "retarg", "retif", "retmatch", "retwhile", "retfor"}}
    \cup {<<SExpr(EReturn(EInt(4))), LetInt("x", 1)>>,
          <<SLet(PVar("x"), EBinOp("Add", EReturn(EInt(4)), EInt(1))), SExpr(EInt(7))>>,
          <<SExpr(CallFun("second", <<Arg(CallFun("early", <<IntArg(3)>>)), IntArg(5)>>))>>}

\* Bodies of main that call functions which read or bind locals.
EnvBodies ==
    {<<LetInt("x", 1), SExpr(CallFun("readx", <<>>))>>,
     <<LetInt("x", 1), LetInt("i", 5), SLet(PVar("p"), NewPt(1, 2)),
       SExpr(CallFun("bindx", <<IntArg(7)>>)), SExpr(EVar("x"))>>,
     <<LetInt("a", 1), SLet(PVar("p"), NewPt(1, 2)),
       SExpr(CallMethod(EVar("p"), "sum", <<IntArg(3), IntArg(4)>>))>>}

\* Bodies of main that evaluate the operators which return a Bool.
BoolBodies ==
    {<<LetInt("x", 1), SExpr(EBinOp(op, EVar("x"), EInt(n)))>> :
        op \in {"Equal", "NotEqual", "Lt", "Gt", "LtEq", "GtEq"}, n \in {1, 2}}
    \cup {<<SLet(PVar("p"), NewPt(1, 2)), SExpr(EBinOp(op, EVar("p"), EVar("p")))>> :
             op \in {"Equal", "NotEqual", "Lt"}}
    \cup {<<SExpr(EBinOp(op, CallAssoc("Opt", "Some", <<IntArg(1)>>),
                         EConstrSelect("Opt", "Nil")))>> :
             op \in {"Equal", "NotEqual", "Lt", "GtEq"}}
    \cup {<<LetInt("x", 1), SExpr(ENot(EBinOp("Equal", EVar("x"), EInt(1))))>>,
          <<SExpr(ENot(EInt(5)))>>,
          <<LetInt("x", 1),
            SWhile(EBinOp("Lt", EVar("x"), EInt(2)),
                   <<SAssign(EVar("x"), "Eq", EBinOp("Add", EVar("x"), EInt(1)))>>)>>}

\* Bodies of main that build records and take them apart.
RecordBodies ==
    {<<SLet(Pat2("a", "y", "b", "x"), Rec2("b", EInt(1), "a", EInt(2))), SExpr(EVar("x"))>>,
     <<SLet(Pat2("b", "x", "a", "y"), Rec2("a", EInt(1), "b", EInt(2))), SExpr(EVar("x"))>>,
     <<SLet(PRecord(<<Field("b", PVar("x")), Field("c", PVar("y")), Field("a", PVar("i"))>>),
            ERecord(<<Field("c", EInt(1)), Field("a", EInt(2)), Field("b", EInt(3))>>))>>,
     <<SExpr(EFieldSelect(Rec2("b", EInt(1), "a", EInt(2)), "b"))>>,
     <<SExpr(EFieldSelect(Rec2("a", EInt(1), "b", EInt(2)), "b"))>>,
     <<SExpr(EFieldSelect(Rec2("y", EInt(1), "x", EInt(2)), "x"))>>,
     <<SLet(PVar("q"), Rec2("b", EInt(1), "a", EInt(2))), SExpr(CallFun("getb", <<Arg(EVar("q"))>>))>>,
     <<SExpr(EMatch(Rec2("y", EInt(1), "x", EInt(2)),
                    <<Alt(Pat2("x", "a", "y", "b"), <<SExpr(EVar("a"))>>)>>))>>,
     <<SLet(PVar("q"), Rec2("b", EInt(1), "a", EInt(2))),
       SLet(PVar("p"), Rec2("a", EInt(3), "b", EInt(4))),
       SExpr(ERecord(<<Positional(EInt(5)), Positional(EInt(6))>>))>>,
     <<SLet(PVar("q"), Rec2("b", EInt(1), "a", EInt(2))),
       SAssign(EFieldSelect(EVar("q"), "a"), "PlusEq", EInt(3)),
       SExpr(EFieldSelect(EVar("q"), "a"))>>}

\* Bodies of main with a call of every form.
CallBodies ==
    {<<SExpr(CallFun("second", <<IntArg(1), IntArg(2)>>))>>,
     <<SExpr(CallFun("second", <<Arg(CallFun("id", <<IntArg(1)>>)),
                                 Arg(CallFun("second", <<IntArg(2), IntArg(3)>>))>>))>>,
     <<SExpr(CallAssoc("Pt", "make", <<IntArg(1), IntArg(2)>>))>>,
     <<SExpr(CallAssoc("Opt", "At", <<IntArg(1), IntArg(2)>>))>>,
     <<SExpr(NewPt(1, 2))>>,
     <<SLet(PVar("p"), NewPt(1, 2)),
       SExpr(CallMethod(EVar("p"), "sum", <<IntArg(3), IntArg(4)>>))>>,
     <<SExpr(CallMethod(CallAssoc("Pt", "make", <<IntArg(1), IntArg(2)>>), "sum",
                        <<IntArg(3), IntArg(4)>>))>>,
     <<SLet(PVar("c"), OptAt), SExpr(CallFun("c", <<IntArg(1), IntArg(2)>>))>>,
     <<SLet(PVar("c"), EVar("second")), SExpr(CallFun("c", <<IntArg(1), IntArg(2)>>))>>,
     <<SExpr(ECall(OptAt, <<IntArg(1), IntArg(2)>>))>>}

\* Bodies of main with a `for` statement.
ForBodies ==
    {<<SFor("i", Range2(0, 2), <<SLet(PVar("y"), EVar("i"))>>), SExpr(EVar("y"))>>,
     <<LetInt("i", 5), LetInt("x", 1),
       SFor("i", Range2(0, 2), <<SAssign(EVar("x"), "Eq", EVar("i"))>>), SExpr(EVar("x"))>>,
     <<LetInt("i", 5), SFor("i", Range2(2, 2), <<>>), SExpr(EVar("i"))>>,
     <<LetInt("i", 5), SFor("i", Range2(3, 1), <<>>)>>,
     <<LetInt("i", 5), LetInt("x", 1),
       SFor("i", Range2(0, 2), <<LetInt("y", 8), SExpr(EReturn(EVar("i")))>>)>>,
     <<SFor("i", ERange(EInt(0), EInt(1), TRUE), <<SLet(PVar("y"), EVar("i"))>>),
       SExpr(EVar("y"))>>,
     <<LetInt("i", 5), SFor("i", ERange(EReturn(EInt(1)), EInt(2), FALSE), <<>>)>>,
     <<LetInt("x", 1), SAssign(EVar("x"), "Eq", EInt(2)), SExpr(EVar("x"))>>,
     <<LetInt("o", 2),
       SFor("i", ERange(EInt(0), EVar("o"), FALSE), <<SAssign(EVar("o"), "Eq", EInt(5))>>),
       SExpr(EVar("o"))>>,
     <<SFor("i", ERange(CallFun("id", <<IntArg(0)>>), CallFun("id", <<IntArg(2)>>), TRUE),
            <<SAssign(EVar("i"), "Eq", EInt(7))>>)>>,
     <<SFor("i", ERange(EInt(126), EInt(127), TRUE), <<>>)>>,
     <<SFor("i", ERange(EInt(-1), EInt(1), FALSE), <<SLet(PVar("y"), EVar("i"))>>),
       SExpr(EVar("y"))>>}

\* The bytes of "h", "i", "x" and "!".
H == <<104>>
HI == <<104, 105>>
X == <<120>>
HIBang == <<104, 105, 33>>

\* Strings and string patterns: the input is "hi".
StringBodies ==
    {<<SExpr(EMatch(EVar("input"), <<Alt(PStrPfx(pfx, "rest"), <<SExpr(EVar("rest"))>>),
                                     Alt(PIgnore, <<SExpr(EInt(0))>>)>>))>> :
        pfx \in {<<>>, H, HI, X, HIBang}}
    \cup
    {<<SExpr(EMatch(EVar("input"),
                    <<Alt(PStrPfx(<<>>, "rest"),
                          <<SExpr(EMatch(EVar("rest"),
                                         <<Alt(PStrPfx(pfx, "q"), <<SExpr(EVar("q"))>>),
                                           Alt(PIgnore, <<SExpr(EInt(0))>>)>>))>>)>>))>> :
        pfx \in {<<>>, H, X}}
    \cup
    {<<SExpr(EMatch(EVar("input"),
                    <<Alt(PStrPfx(H, "rest"),
                          <<SExpr(EMatch(EVar("rest"),
                                         <<Alt(PStr(<<105>>), <<SExpr(EInt(1))>>),
                                           Alt(PIgnore, <<SExpr(EInt(0))>>)>>))>>)>>))>>,
     <<SExpr(EMatch(EString(<<StrPart(H), StrPart(<<105, 33>>)>>),
                    <<Alt(PStr(HI), <<SExpr(EInt(1))>>),
                      Alt(PStrPfx(HI, "rest"), <<SExpr(EVar("rest"))>>)>>))>>,
     <<SExpr(EMatch(EVar("input"), <<Alt(PStr(H), <<SExpr(EInt(1))>>),
                                     Alt(PStr(HI), <<SExpr(EInt(2))>>)>>))>>}

OptNil == EConstrSelect("Opt", "Nil")
OptSome(n) == CallAssoc("Opt", "Some", <<IntArg(n)>>)
PSome(pat) == PConstr("Opt", Some("Some"), <<Positional(pat)>>)
PAt(p1, p2) == PConstr("Opt", Some("At"), <<Positional(p1), Positional(p2)>>)
PNil == PConstr("Opt", Some("Nil"), <<>>)

\* Matches: no alternative binds, several would, or-patterns, a right-hand
\* side of two statements, no alternatives, a scrutinee that returns.
MatchBodies ==
    {<<SExpr(EMatch(scrut, <<Alt(PSome(PVar("q")), <<SExpr(EVar("q"))>>),
                             Alt(PAt(PVar("q"), PIgnore), <<SExpr(EInt(2))>>)>>))>> :
        scrut \in {OptNil, OptSome(1), CallAssoc("Opt", "At", <<IntArg(1), IntArg(2)>>)}}
    \cup
    {<<SExpr(EMatch(scrut, <<Alt(PNil, <<SExpr(EInt(0))>>),
                             Alt(POr(PAt(PVar("q"), PIgnore), PSome(PVar("q"))),
                                 <<SLet(PVar("y"), EVar("q")), SExpr(EVar("y"))>>),
                             Alt(PVar("x"), <<SExpr(EInt(9))>>),
                             Alt(PIgnore, <<SExpr(EInt(8))>>)>>))>> :
        scrut \in {OptNil, OptSome(1), CallAssoc("Opt", "At", <<IntArg(1), IntArg(2)>>), EInt(3)}}
    \cup
    {<<SExpr(EMatch(EInt(1), <<>>))>>,
     <<SExpr(EMatch(EReturn(EInt(1)), <<Alt(PIgnore, <<SExpr(EInt(2))>>)>>))>>,
     <<LetInt("x", 5),
       SExpr(EMatch(EInt(1), <<Alt(PVar("x"), <<SExpr(EVar("x"))>>),
                               Alt(PVar("y"), <<SExpr(EVar("y"))>>)>>)),
       SExpr(EVar("x"))>>}

ShBox(x, y) == CallAssoc("Sh", "Box", <<NamedArg("x", x), NamedArg("y", y)>>)
PBox(px, py) == PConstr("Sh", Some("Box"), <<Field("x", px), Field("y", py)>>)
PDot == PConstr("Sh", Some("Dot"), <<>>)

\* Constructor patterns with positional and with named fields, nested, on
\* values of the constructor, of another variant and of another type; a
\* pattern of the wrong arity and one of an unknown constructor.
ConstrPatBodies ==
    {<<SExpr(EMatch(scrut, <<Alt(PDot, <<SExpr(EInt(0))>>),
                             Alt(PBox(PIgnore, PNil), <<SExpr(EInt(1))>>),
                             Alt(PBox(PVar("a"), PSome(PVar("q"))), <<SExpr(EVar("q"))>>),
                             Alt(PBox(PVar("a"), PAt(PVar("q"), PVar("b"))),
                                 <<SExpr(EVar("b"))>>),
                             Alt(PIgnore, <<SExpr(EInt(9))>>)>>))>> :
        scrut \in {EConstrSelect("Sh", "Dot"), ShBox(EInt(1), OptNil), ShBox(EInt(1), OptSome(2)),
                   ShBox(EInt(1), CallAssoc("Opt", "At", <<IntArg(2), IntArg(3)>>)),
                   EInt(3), OptNil, BoolTrue}}
    \cup
    {<<SExpr(EMatch(scrut, <<Alt(PConstr("Opt", Some("Some"), <<Positional(PVar("q")),
                                                                 Positional(PVar("p"))>>),
                                 <<SExpr(EInt(1))>>),
                             Alt(PConstr("Opt", Some("None"), <<>>), <<SExpr(EInt(2))>>),
                             Alt(PIgnore, <<SExpr(EInt(9))>>)>>))>> :
        scrut \in {EInt(3), OptNil, OptSome(1)}}

\* let a = Array.new(2); a.set(0, 5); a.set(1, 6)
NewArray2 ==
    <<SLet(PVar("a"), CallAssoc("Array", "new", <<IntArg(2)>>)),
      SExpr(CallMethod(EVar("a"), "set", <<IntArg(0), IntArg(5)>>)),
      SExpr(CallMethod(EVar("a"), "set", <<IntArg(1), IntArg(6)>>))>>

\* Indexing: an array within and out of its bounds, an empty array, and
\* values that are not arrays or not I32 in the place of the array and of
\* the index.
ArrayBodies ==
    {NewArray2 \o <<SExpr(EArrayIndex(EVar("a"), EInt(i)))>> : i \in {0, 1, 2, 3, -1, -128, 127}}
    \cup
    {NewArray2 \o <<SExpr(EArrayIndex(EVar("a"), i))>> :
        i \in {BoolFalse, OptSome(0), EVar("input"), EVar("a")}}
    \cup
    {<<SExpr(EArrayIndex(a, EInt(i)))>> :
        a \in {EVar("input"), OptSome(1), EInt(3), CallAssoc("Array", "new", <<IntArg(0)>>)},
        i \in {0, 1}}

\* Calls with a wrong number of arguments or a wrong argument name: of
\* constructors with positional and with named fields, of a constructor
\* held in a local, of a function and of a method.
ArityBodies ==
    {<<SExpr(ECall(EUpperVar("Pt"), args))>> :
        args \in {<<NamedArg("x", EInt(1))>>,
                  <<NamedArg("x", EInt(1)), NamedArg("a", EInt(2))>>,
                  <<NamedArg("x", EInt(1)), NamedArg("y", EInt(2)), NamedArg("a", EInt(3))>>,
                  <<NamedArg("a", EInt(3)), NamedArg("y", EInt(2)), NamedArg("x", EInt(1))>>,
                  <<IntArg(1), IntArg(2)>>}}
    \cup
    {<<SExpr(CallAssoc("Opt", c, args))>> :
        c \in {"Some", "Nil", "At"}, args \in {<<>>, <<IntArg(1)>>, <<IntArg(1), IntArg(2)>>}}
    \cup
    {<<SLet(PVar("c"), EConstrSelect("Opt", "Some")), SExpr(CallFun("c", args))>> :
        args \in {<<>>, <<IntArg(1), IntArg(2)>>}}
    \cup
    {<<SExpr(CallFun("second", args))>> :
        args \in {<<>>, <<IntArg(1)>>, <<IntArg(1), IntArg(2), IntArg(3)>>}}
    \cup
    {<<SLet(PVar("p"), NewPt(1, 2)), SExpr(CallMethod(EVar("p"), "sum", args))>> :
        args \in {<<>>, <<IntArg(3)>>, <<IntArg(3), IntArg(4), IntArg(5)>>}}

\* `lhs = rhs` with lhs a field.
SetField(o, f, rhs) == SAssign(EFieldSelect(o, f), "Eq", rhs)
\* `let p = Pt(x = 1, y = 2)`
LetP == SLet(PVar("p"), NewPt(1, 2))
FieldAssignBodies ==
    {<<LetP, SLet(PVar("q"), NewPt(3, 4)), SetField(EVar("p"), "x", EInt(5)),
       SExpr(EFieldSelect(EVar("p"), "x"))>>,
     <<LetP, SLet(PVar("q"), EVar("p")), SetField(EVar("q"), "y", EInt(7)),
       SExpr(EFieldSelect(EVar("p"), "y"))>>,
     <<LetP, SetField(EVar("p"), "x", EVar("p")), SExpr(EFieldSelect(EVar("p"), "x"))>>,
     <<LetP, SetField(EVar("p"), "a", EInt(5))>>,
     <<LetP, SetField(NewPt(3, 4), "y", EVar("p"))>>,
     <<SLet(PVar("o"), OptSome(1)), SetField(EVar("o"), "x", EInt(5))>>,
     <<LetInt("x", 1), SetField(EVar("x"), "y", EInt(2))>>,
     <<SLet(PVar("b"), ShBox(EInt(1), OptNil)), SetField(EVar("b"), "x", EInt(3)),
       SetField(EVar("b"), "y", OptSome(2)), SExpr(EVar("b"))>>,
     <<SLet(PVar("q"), Rec2("b", EInt(1), "a", EInt(2))), SetField(EVar("q"), "a", EInt(9)),
       SetField(EVar("q"), "c", EInt(9))>>,
     <<LetP, SAssign(EFieldSelect(EVar("p"), "y"), "MinusEq", EInt(3)),
       SExpr(EFieldSelect(EVar("p"), "y"))>>}

\* `x op rhs` with x a variable.
SetVar(x, op, rhs) == SAssign(EVar(x), op, rhs)
VarAssignBodies ==
    {<<LetInt("x", 1), LetInt("y", 2), SetVar("x", "Eq", EInt(5)), SExpr(EVar("x"))>>,
     <<LetInt("x", 1), LetInt("y", 2), SetVar("x", "Eq", EVar("y")),
       SetVar("y", "Eq", EInt(3)), SExpr(EVar("x"))>>,
     <<SetVar("x", "Eq", EInt(5)), SExpr(EVar("x"))>>,
     <<LetInt("x", 1), SetVar("y", "Eq", EInt(2)), SExpr(EVar("y"))>>,
     <<LetInt("x", 1), SetVar("x", "PlusEq", EInt(1)), SExpr(EVar("x"))>>,
     <<LetInt("x", 1), SetVar("x", "MinusEq", EInt(1)), SExpr(EVar("x"))>>,
     <<SetVar("x", "PlusEq", EInt(1))>>,
     <<SetVar("input", "Eq", EInt(1)), SExpr(EVar("input"))>>,
     <<LetInt("x", 0),
       SFor("i", ERange(EInt(0), EInt(2), FALSE), <<SetVar("x", "Eq", EVar("i"))>>),
       SExpr(EVar("x"))>>}

\* `p op v` with p a Pt, whose __cmp returns v.
CmpPt(op, v) == <<LetP, SExpr(EBinOp(op, EVar("p"), v))>>
CmpOps == {"Lt", "Gt", "LtEq", "GtEq"}
CmpBodies ==
    {CmpPt(op, EConstrSelect("Ordering", c)) : op \in CmpOps, c \in {"Less", "Equal", "Greater"}}
    \cup {CmpPt(op, BoolTrue) : op \in CmpOps}

\* Programs that use the value of an `if` with no taken branch, of an
\* empty block, and of `while` and `for` statements.
PlaceholderBodies ==
    {<<>>,
     <<SLet(PVar("y"), EIf(<<Branch(BoolFalse, <<SExpr(EInt(1))>>)>>, None)), SExpr(EVar("y"))>>,
     <<SLet(PVar("y"), EIf(<<Branch(BoolTrue, <<>>)>>, None)), SExpr(EVar("y"))>>,
     <<SLet(PVar("y"), EIf(<<Branch(BoolTrue, <<SWhile(BoolFalse, <<>>)>>)>>, None)),
       SExpr(ECall(EUpperVar("Pt"), <<NamedArg("x", EVar("y")), NamedArg("y", EInt(1))>>))>>,
     <<SLet(PVar("y"),
            EIf(<<>>, Some(<<SFor("i", ERange(EInt(0), EInt(1), FALSE), <<>>)>>))),
       SExpr(CallFun("id", <<Arg(EVar("y"))>>))>>,
     <<LetInt("x", 1), SFor("i", ERange(EInt(0), EInt(1), TRUE), <<SExpr(EVar("x"))>>)>>}

\* `while cond { return 1 }; 2`
WhileReturn(cond) == <<SWhile(cond, <<SExpr(EReturn(EInt(1)))>>), SExpr(EInt(2))>>
WhileBodies ==
    {WhileReturn(c) : c \in {BoolTrue, BoolFalse, EInt(0), OptNil,
                              EBinOp("Equal", EInt(1), EInt(1)),
                              EBinOp("Equal", EInt(1), EInt(2))}}
    \cup {<<LetInt("x", 0), SWhile(EBinOp("Equal", EVar("x"), EInt(0)), <<>>)>>,
          <<LetInt("x", 0),
            SWhile(EBinOp("Lt", EVar("x"), EInt(2)),
                   <<SAssign(EVar("x"), "Eq", EBinOp("Add", EVar("x"), EInt(1)))>>),
            SExpr(EVar("x"))>>}

\* `match scrut { pat => rhs }; last`
Match1(scrut, pat, rhs, last) == <<SExpr(EMatch(scrut, <<Alt(pat, rhs)>>)), SExpr(last)>>
ScopeBodies ==
    {Match1(OptSome(1), PSome(PVar("q")), <<>>, EVar("q")),
     <<LetInt("q", 5)>> \o Match1(OptSome(1), PSome(PVar("q")), <<SExpr(EInt(2))>>, EVar("q")),
     <<LetInt("q", 5)>>
        \o Match1(OptSome(1), PSome(PVar("q")), <<SAssign(EVar("q"), "Eq", EInt(3))>>, EVar("q")),
     Match1(CallAssoc("Opt", "At", <<IntArg(1), IntArg(2)>>), PAt(PVar("a"), PVar("b")),
            <<SLet(PVar("a"), EVar("b")), LetInt("z", 4)>>, EVar("a")),
     Match1(OptSome(1), PSome(PVar("i")),
            <<SFor("i", ERange(EInt(0), EInt(1), FALSE), <<>>)>>, EVar("i")),
     Match1(OptSome(1), PSome(PVar("i")),
            <<SFor("i", ERange(EInt(0), EInt(1), FALSE), <<>>), LetInt("i", 7)>>, EVar("i")),
     Match1(OptSome(1), PSome(PVar("q")),
            <<SExpr(EMatch(OptSome(2), <<Alt(PSome(PVar("q")), <<LetInt("w", 1)>>)>>))>>,
            EVar("w")),
     Match1(OptSome(1), PSome(PVar("q")), <<SExpr(CallFun("bindx", <<IntArg(7)>>))>>, EVar("q")),
     <<SExpr(EIf(<<Branch(EBinOp("Equal", EInt(1), EInt(1)), <<LetInt("z", 1)>>)>>, None)),
       SExpr(EVar("z"))>>,
     <<LetInt("z", 0),
       SExpr(EIf(<<Branch(EBinOp("Equal", EInt(1), EInt(2)), <<LetInt("z", 1)>>)>>,
                 Some(<<LetInt("z", 2), LetInt("w", 3)>>))),
       SExpr(EVar("w"))>>}

\* Opt.At(a, b)
OptAt2(a, b) == CallAssoc("Opt", "At", <<Arg(a), Arg(b)>>)
\* Matches whose first alternative fails after a sub-pattern has bound.
PartialBodies ==
    {<<LetInt("q", 5),
       SExpr(EMatch(OptAt2(EInt(1), OptNil),
                    <<Alt(PAt(PVar("q"), PSome(PVar("a"))), <<SExpr(EInt(0))>>),
                      Alt(PAt(PVar("b"), PNil), <<SExpr(EVar("q"))>>)>>))>>,
     <<LetInt("q", 5),
       SExpr(EMatch(OptAt2(EInt(1), OptNil),
                    <<Alt(PAt(PVar("q"), PSome(PVar("a"))), <<SExpr(EInt(0))>>),
                      Alt(PIgnore, <<SExpr(EVar("a"))>>)>>))>>,
     <<LetInt("q", 5),
       SExpr(EMatch(OptAt2(EInt(1), OptNil),
                    <<Alt(PAt(PVar("q"), PSome(PVar("a"))), <<SExpr(EInt(0))>>)>>))>>,
     <<SExpr(EMatch(OptAt2(EVar("input"), OptNil),
                    <<Alt(PAt(PStrPfx(H, "rest"), PSome(PIgnore)), <<SExpr(EVar("rest"))>>),
                      Alt(PAt(PStrPfx(H, "tail"), PSome(PIgnore)), <<SExpr(EVar("tail"))>>),
                      Alt(PIgnore, <<SExpr(EVar("rest"))>>)>>))>>,
     <<SExpr(EMatch(Rec2("a", EInt(1), "b", OptNil),
                    <<Alt(PRecord(<<Field("a", PVar("x")), Field("b", PSome(PVar("y")))>>),
                          <<SExpr(EVar("x"))>>),
                      Alt(PRecord(<<Field("b", PVar("y")), Field("a", PIgnore)>>),
                          <<SExpr(EVar("y"))>>)>>)),
       SExpr(EVar("x"))>>,
     <<LetInt("q", 5),
       SExpr(EMatch(OptAt2(EInt(1), OptNil),
                    <<Alt(POr(PAt(PVar("q"), PSome(PIgnore)), PSome(PVar("q"))),
                          <<SExpr(EInt(0))>>),
                      Alt(PVar("x"), <<SExpr(EVar("q"))>>)>>))>>}

\* `match 1 { T(..) => 1, _ => 2 }` with T named without a constructor.
MatchType(ty) ==
    <<SExpr(EMatch(EInt(1), <<Alt(PConstr(ty, None, <<>>), <<SExpr(EInt(1))>>),
                              Alt(PIgnore, <<SExpr(EInt(2))>>)>>))>>
\* Uses of the types without value constructors as an expression and in a
\* pattern.
RangeBodies ==
    {<<SExpr(EUpperVar(ty))>> : ty \in {"I32", "Str", "StrView", "Array"}}
    \cup {MatchType(ty) : ty \in {"I32", "Str", "StrView", "Array", "Unit", "Opt"}}

\* `match 0 { _ => { p.x = n; last } }`
SetPx(n, last) ==
    EMatch(EInt(0), <<Alt(PIgnore, <<SetField(EVar("p"), "x", EInt(n)), SExpr(last)>>)>>)
\* `obj.x op rhs` where evaluating obj or rhs assigns p.x on the way.
OpAssignBodies ==
    {<<LetP, SAssign(EFieldSelect(EVar("p"), "x"), "PlusEq", SetPx(10, EInt(5))),
       SExpr(EFieldSelect(EVar("p"), "x"))>>,
     <<LetP, SAssign(EFieldSelect(SetPx(20, EVar("p")), "x"), "MinusEq", EInt(5)),
       SExpr(EFieldSelect(EVar("p"), "x"))>>,
     <<LetP, SAssign(EFieldSelect(SetPx(20, EVar("p")), "x"), "PlusEq", SetPx(10, EInt(5))),
       SExpr(EFieldSelect(EVar("p"), "x"))>>,
     <<LetP, SAssign(EFieldSelect(SetPx(20, EVar("p")), "x"), "Eq", SetPx(10, EInt(5))),
       SExpr(EFieldSelect(EVar("p"), "x"))>>,
     <<LetP, SAssign(EFieldSelect(SetPx(20, EVar("p")), "x"), "PlusEq", EVar("nope")),
       SExpr(EFieldSelect(EVar("p"), "x"))>>,
     <<LetP,
       SExpr(EMatch(EInt(0),
                    <<Alt(PIgnore,
                          <<SAssign(EFieldSelect(EVar("p"), "y"), "PlusEq", EInt(5))>>)>>))>>}

MainBodies ==
    OpAssignBodies \cup RangeBodies \cup PartialBodies \cup ScopeBodies \cup WhileBodies \cup PlaceholderBodies \cup CmpBodies \cup FieldAssignBodies \cup VarAssignBodies \cup NullaryBodies \cup ReturnBodies \cup EnvBodies \cup BoolBodies \cup RecordBodies
        \cup CallBodies \cup ForBodies \cup StringBodies \cup MatchBodies
        \cup ConstrPatBodies \cup ArrayBodies \cup ArityBodies

\* Declarations of Bool that are not `False, True`, and none at all.
OtherBools ==
    {<<>>,
     <<SumType("Bool", <<Constr("True", NoFields), Constr("False", NoFields)>>)>>,
     <<SumType("Bool", <<Constr("False", NoFields), Constr("True", NoFields),
                         Constr("Maybe", NoFields)>>)>>,
     <<SumType("Bool", <<Constr("False", NoFields)>>)>>,
     <<SumType("Bool", <<Constr("False", UnnamedTys(<<I32Ty>>)), Constr("True", NoFields)>>)>>,
     <<ProductType("Bool", NoFields)>>}
OtherBoolDeclLists ==
    {PrimTypes \o <<OrderingType, OptType>> \o bool \o <<ShType, PtType, UnitType>> :
        bool \in OtherBools}
OtherBoolBodies ==
    {<<SExpr(BoolTrue)>>,
     <<SExpr(EConstrSelect("Bool", "Maybe"))>>,
     <<LetInt("x", 1), SExpr(EBinOp("Equal", EVar("x"), EInt(1)))>>}

\* Declarations of Ordering other than `Less, Equal, Greater`, and none.
OtherOrderings ==
    {<<>>,
     <<SumType("Ordering", <<Constr("Less", NoFields), Constr("Equal", NoFields)>>)>>,
     <<SumType("Ordering", <<Constr("Less", NoFields), Constr("Equal", NoFields),
                             Constr("Greater", NoFields), Constr("Maybe", NoFields)>>)>>,
     <<SumType("Ordering", <<Constr("Equal", NoFields), Constr("Greater", NoFields),
                             Constr("Less", NoFields)>>)>>,
     <<SumType("Ordering", <<Constr("Less", NoFields), Constr("Equal", NoFields),
                             Constr("Maybe", NoFields)>>)>>}
OtherOrderingDeclLists ==
    {PrimTypes \o <<BoolType>> \o ord \o <<OptType, ShType, PtType, UnitType>> :
        ord \in OtherOrderings}
OtherOrderingBodies ==
    {CmpPt(op, EVar("p")) : op \in {"Lt", "GtEq"}}
    \cup {CmpPt(op, EConstrSelect("Ordering", c)) : op \in CmpOps, c \in {"Less", "Equal"}}

Programs ==
    {tys \o FunDecls \o <<MainFun(body)>> : tys \in TypeDeclLists, body \in MainBodies}
    \cup {tys \o FunDecls \o <<MainFun(body)>> :
             tys \in OtherOrderingDeclLists, body \in OtherOrderingBodies}
    \cup {tys \o FunDecls \o <<MainFun(body)>> :
             tys \in OtherBoolDeclLists, body \in OtherBoolBodies}

RECURSIVE Orders(_)
\* The orders in which the iteration of a set may yield its elements.
Orders(S) ==
    IF S = {} THEN {<<>>}
    ELSE UNION {{<<x>> \o q : q \in Orders(S \ {x})} : x \in S}

(***************************************************************************)
(* run: the state after Pgm::new and the allocation of the input, then the *)
(* statement loop of exec on the body of main, one statement an action.    *)
(***************************************************************************)
MainDecl == ast[Len(ast)]
MainBody == MainDecl.body

Init ==
    /\ ast \in Programs
    /\ debug \in BOOLEAN
    /\ \E record_shapes \in Orders(collect_records(ast)) :
          LET built == PgmNew(ast, record_shapes, HeapNew)
              input == allocate_str(built.heap, Input)
          IN /\ pgm = built.pgm
             /\ heap = input.heap
             /\ locals = MapInsert(EmptyMap, "input", input.addr)
             /\ status = IF built.panic \/ "main" \notin DOMAIN built.pgm.top_level_funs
                         THEN "abort" ELSE "run"
    /\ pc = 1
    /\ return_value = 0
    /\ result = 0
    /\ trace = <<>>

State == [heap |-> heap, locals |-> locals, trace |-> trace, depth |-> 0, level |-> 0]

\* The effect of one iteration of the statement loop with outcome r.
Commit(r) ==
    /\ heap' = r.s.heap
    /\ locals' = r.s.locals
    /\ trace' = IF r.k = "Ret" THEN Append(r.s.trace, ExecEvent(r.v, 0, 0)) ELSE r.s.trace
    /\ return_value' = IF r.k = "Val" THEN r.v ELSE return_value
    /\ pc' = IF r.k = "Val" THEN pc + 1 ELSE pc
    /\ status' = CASE r.k = "Val" -> "run"
                   [] r.k = "Ret" -> "done"
                   [] r.k = "Abort" -> "abort"
                   [] r.k = "Diverge" -> "diverge"
    /\ result' = IF r.k = "Ret" THEN r.v ELSE result
    /\ UNCHANGED <<ast, pgm, debug>>

AtStmt(kind) == status = "run" /\ pc <= Len(MainBody) /\ MainBody[pc].s = kind

StepLet == AtStmt("Let") /\ Commit(ExecLet(State, MainBody[pc]))
StepAssign == AtStmt("Assign") /\ Commit(ExecAssign(State, MainBody[pc]))
StepExpr == AtStmt("Expr") /\ Commit(ExecExpr(State, MainBody[pc]))
StepWhile == AtStmt("While") /\ Commit(ExecWhile(State, MainBody[pc]))
StepFor == AtStmt("For") /\ Commit(ExecFor(State, MainBody[pc]))

\* The end of the statement loop: call_source_fun returns the last value.
Finish ==
    /\ status = "run"
    /\ pc > Len(MainBody)
    /\ status' = "done"
    /\ result' = return_value
    /\ UNCHANGED <<ast, pgm, heap, locals, pc, return_value, trace, debug>>

Next == StepLet \/ StepAssign \/ StepExpr \/ StepWhile \/ StepFor \/ Finish

Spec == Init /\ [][Next]_vars

(***************************************************************************)
(* The history of a run                                                    *)
(***************************************************************************)
\* Event k is the return of an eval or exec step with Val, with Ret.
ValExit(k) == trace[k].ev = "exit" /\ trace[k].k = "Val"
RetExit(k) == trace[k].ev \in {"exit", "exec"} /\ trace[k].k = "Ret"

\* Events j and k belong to the same activation and level of nesting.
SamePlace(j, k) == trace[j].d = trace[k].d /\ trace[j].l = trace[k].l

\* The entry of the evaluation that returns at event k, and the return of
\* the evaluation entered at event n.
EntryOf(k) ==
    CHOOSE n \in 1..(k - 1) :
       /\ trace[n].ev = "eval" /\ SamePlace(n, k)
       /\ \A m \in (n + 1)..(k - 1) : ~(trace[m].ev = "eval" /\ SamePlace(m, k))
HasExit(n) == \E x \in (n + 1)..Len(trace) : trace[x].ev = "exit" /\ SamePlace(x, n)
ExitOf(n) ==
    CHOOSE x \in (n + 1)..Len(trace) :
       /\ trace[x].ev = "exit" /\ SamePlace(x, n)
       /\ \A m \in (n + 1)..(x - 1) : ~(trace[m].ev = "exit" /\ SamePlace(m, n))

\* The entries of the sub-evaluations made directly by the evaluation that
\* is entered at event n and has returned by event k, in the order made.
ChildEntries(n, k) ==
    {c \in (n + 1)..(k - 1) :
        trace[c].ev = "eval" /\ trace[c].d = trace[n].d /\ trace[c].l = trace[n].l + 1}
RECURSIVE InOrder(_)
InOrder(S) ==
    IF S = {} THEN <<>>
    ELSE LET least == CHOOSE x \in S : \A y \in S : x <= y
         IN <<least>> \o InOrder(S \ {least})
Children(n, k) == InOrder(ChildEntries(n, k))
ChildExprs(n, k) == [i \in DOMAIN Children(n, k) |-> trace[Children(n, k)[i]].e]

(***************************************************************************)
(* Canonical allocations of nullary constructors                           *)
(***************************************************************************)
\* The constructor with tag `tag` has a canonical allocation.
HasCanonical(tag) == ValidTag(tag) /\ IsSome(ConAlloc(pgm.cons_by_tag, tag))

\* C1: every evaluation that returns a value of a nullary constructor
\* returns the canonical address the builder stored in cons_by_tag, and no
\* object with the tag of a nullary constructor is allocated during a run.
NullaryIsCanonical ==
    /\ \A k \in DOMAIN trace :
          ValExit(k) /\ HasCanonical(HeapGet(heap, trace[k].v))
             => trace[k].v = Unwrap(ConAlloc(pgm.cons_by_tag, HeapGet(heap, trace[k].v)))
    /\ \A k \in DOMAIN trace : trace[k].ev = "alloc" => ~HasCanonical(trace[k].tag)

\* `Bool.True` has returned an address that is not true_alloc.
TrueIsDuplicated ==
    \E k \in DOMAIN trace :
       /\ ValExit(k) /\ trace[k].e = BoolTrue
       /\ trace[k].v # pgm.true_alloc
       /\ HeapGet(heap, trace[k].v) = HeapGet(heap, pgm.true_alloc)

(***************************************************************************)
(* Early return                                                            *)
(***************************************************************************)
\* The return of the call whose body returned Ret at event k: the first
\* "return" event of that depth after k, Len(trace) + 1 when there is none.
ReturnAfter(k) ==
    LET rs == {j \in (k + 1)..Len(trace) : trace[j].ev = "return" /\ trace[j].d = trace[k].d}
    IN IF rs = {} THEN Len(trace) + 1 ELSE CHOOSE j \in rs : \A o \in rs : j <= o

\* C2: once a step of a function body returns Ret(v), nothing more of that
\* body is evaluated: every later step of the activation returns Ret(v),
\* call_source_fun returns v, and the caller's call expression returns Val(v);
\* in main, the run is done with result v.
RetPropagates ==
    \A k \in DOMAIN trace :
       RetExit(k) =>
          LET end == ReturnAfter(k)
          IN /\ \A j \in (k + 1)..(end - 1) :
                   \/ trace[j].ev \in {"body", "for"} /\ trace[j].d = trace[k].d
                   \/ RetExit(j) /\ trace[j].d = trace[k].d /\ trace[j].v = trace[k].v
             /\ end <= Len(trace) => trace[end].v = trace[k].v
             /\ (end < Len(trace) /\ trace[end + 1].ev = "exit" /\ trace[end + 1].e.t = "Call")
                   => /\ trace[end + 1].k = "Val"
                      /\ trace[end + 1].v = trace[k].v
                      /\ trace[end + 1].d = trace[k].d - 1
             /\ trace[k].d = 0 => (status = "done" => result = trace[k].v)
             /\ trace[k].d = 0 /\ trace[Len(trace)].ev = "exec" => status = "done"

\* A callee returned from a `return` nested in an operand, and its caller
\* went on with the value.
RetReachedCaller ==
    \E k \in DOMAIN trace :
       /\ RetExit(k) /\ trace[k].d = 1 /\ trace[k].ev = "exit" /\ trace[k].e.t = "Return"
       /\ \E j \in (k + 1)..Len(trace) :
             /\ trace[j].ev = "return" /\ trace[j].fun.name = "early"
             /\ trace[j].v = trace[k].v
       /\ status = "run" /\ pc = 2 /\ "y" \in DOMAIN locals /\ locals["y"] = trace[k].v

(***************************************************************************)
(* The environment of a call                                               *)
(***************************************************************************)
\* C3: the body of a source function starts in an environment that binds
\* exactly `self` (when declared) to the first argument and the parameters
\* to the remaining arguments in order, and after the call the caller's
\* environment is the one it had just before the call.
CallHasFreshEnv ==
    \A k \in DOMAIN trace :
       /\ trace[k].ev = "call" =>
             LET fun == trace[k].fun
                 self == IF fun.self_ THEN 1 ELSE 0
             IN /\ DOMAIN trace[k].env =
                      {fun.params[i].name : i \in DOMAIN fun.params}
                         \cup (IF fun.self_ THEN {"self"} ELSE {})
                /\ fun.self_ => trace[k].env["self"] = trace[k].args[1]
                /\ \A i \in DOMAIN fun.params :
                      trace[k].env[fun.params[i].name] = trace[k].args[i + self]
       /\ trace[k].ev = "return" => trace[k].after = trace[k].before

\* bindx has bound x and p and looped over i while its caller had x, i and
\* p bound, and the caller reads its own x after the call.
CalleeBoundCallerNames ==
    \E k \in DOMAIN trace :
       /\ trace[k].ev = "return" /\ trace[k].fun.name = "bindx"
       /\ {"x", "i", "p"} \subseteq DOMAIN trace[k].before
       /\ \E j \in 1..(k - 1) : trace[j].ev = "body" /\ trace[j].d = 1 /\ trace[j].var = "i"
       /\ status = "run" /\ pc = 6 /\ return_value = locals["x"]

(***************************************************************************)
(* The operators that return a Bool                                        *)
(***************************************************************************)
BoolOps == {"Equal", "NotEqual", "Lt", "Gt", "LtEq", "GtEq"}

\* C4: an evaluation of ==, !=, <, >, <=, >= or `not` that returns a value
\* returns true_alloc or false_alloc, whatever __eq or __cmp returned.
BoolOpsReturnBool ==
    \A k \in DOMAIN trace :
       (/\ ValExit(k)
        /\ \/ trace[k].e.t = "BinOp" /\ trace[k].e.op \in BoolOps
           \/ trace[k].e.t = "UnOp")
          => trace[k].v \in {pgm.true_alloc, pgm.false_alloc}

\* `p == p` has returned a Bool after Pt.__eq returned an I32.
EqOfNonBoolReturned ==
    \E k \in DOMAIN trace :
       /\ ValExit(k) /\ trace[k].e = EBinOp("Equal", EVar("p"), EVar("p"))
       /\ trace[k - 1].ev = "return" /\ trace[k - 1].fun.name = "__eq"
       /\ HeapGet(heap, trace[k - 1].v) = I32_TYPE_TAG
       /\ trace[k].v = pgm.false_alloc

(***************************************************************************)
(* Records                                                                 *)
(***************************************************************************)
FieldNames(fs) == {Unwrap(fs[i].name) : i \in DOMAIN fs}
\* e is a record literal with distinct field names and distinct expressions.
NamedRecord(e) ==
    /\ e.t = "Record" /\ Len(e.fields) > 0
    /\ \A i \in DOMAIN e.fields : IsSome(e.fields[i].name)
    /\ \A i, j \in DOMAIN e.fields :
          i # j => e.fields[i].name # e.fields[j].name /\ e.fields[i].node # e.fields[j].node
\* p is a record pattern that binds a variable for each of the names of fs.
VarsPattern(p, fs) ==
    /\ p.p = "Record"
    /\ \A i \in DOMAIN p.fields : IsSome(p.fields[i].name) /\ p.fields[i].node.p = "Var"
    /\ FieldNames(p.fields) = FieldNames(fs)
    /\ Len(p.fields) = Len(fs)
\* The payload slot (from 1) of `name` among the names of fs in sorted order.
SlotOf(fs, name) ==
    1 + Cardinality({m \in FieldNames(fs) : NameRank(m) < NameRank(name)})
\* The address returned by the expression written for `name` in the record
\* literal that returns at event k.
Written(k, name) ==
    LET e == trace[k].e
        n == EntryOf(k)
        x == CHOOSE i \in DOMAIN e.fields : e.fields[i].name = Some(name)
        c == CHOOSE c \in ChildEntries(n, k) : trace[c].e = e.fields[x].node
    IN trace[ExitOf(c)].v

\* C5: a record literal with distinct named fields stores, in the slot of
\* each name in sorted order, the address its expression returned; a field
\* selection on it, a match of it and a let of it against a pattern with
\* the same names yield for each name that address.
RecordRoundTrip ==
    /\ \A k \in DOMAIN trace :
          (ValExit(k) /\ NamedRecord(trace[k].e)) =>
             \A i \in DOMAIN trace[k].e.fields :
                LET name == Unwrap(trace[k].e.fields[i].name)
                IN trace[k].o[SlotOf(trace[k].e.fields, name)] = Written(k, name)
    /\ \A k \in DOMAIN trace :
          (/\ ValExit(k) /\ trace[k].e.t = "FieldSelect"
           /\ NamedRecord(trace[k].e.object)
           /\ trace[k].e.field \in FieldNames(trace[k].e.object.fields))
             => trace[k].v = Written(k - 1, trace[k].e.field)
    /\ \A k \in DOMAIN trace :
          (/\ ValExit(k) /\ trace[k].e.t = "Match"
           /\ NamedRecord(trace[k].e.scrutinee)
           /\ Len(trace[k].e.alts) >= 1
           /\ VarsPattern(trace[k].e.alts[1].pattern, trace[k].e.scrutinee.fields)
           /\ Len(trace[k].e.alts[1].rhs) = 1
           /\ trace[k].e.alts[1].rhs[1].s = "Expr"
           /\ trace[k].e.alts[1].rhs[1].expr.t = "Var")
             => LET pat == trace[k].e.alts[1].pattern
                    var == trace[k].e.alts[1].rhs[1].expr.var
                    scrut == ExitOf(Children(EntryOf(k), k)[1])
                IN \A i \in DOMAIN pat.fields :
                      pat.fields[i].node.var = var
                         => trace[k].v = Written(scrut, Unwrap(pat.fields[i].name))
    /\ (/\ status = "run" /\ pc > 1 /\ MainBody[pc - 1].s = "Let"
        /\ NamedRecord(MainBody[pc - 1].rhs)
        /\ VarsPattern(MainBody[pc - 1].lhs, MainBody[pc - 1].rhs.fields))
          => LET pat == MainBody[pc - 1].lhs
             IN \A i \in DOMAIN pat.fields :
                   /\ pat.fields[i].node.var \in DOMAIN locals
                   /\ locals[pat.fields[i].node.var] =
                         Written(Len(trace), Unwrap(pat.fields[i].name))

\* `let {a = y, b = x} = {b = 1, a = 2}` has bound x to the 1 and y to the 2.
RecordTakenApart ==
    /\ status = "run" /\ pc = 2
    /\ MainBody[1] = SLet(Pat2("a", "y", "b", "x"), Rec2("b", EInt(1), "a", EInt(2)))
    /\ HeapGet(heap, locals["x"] + 1) = 1
    /\ HeapGet(heap, locals["y"] + 1) = 2
    /\ trace[Len(trace)].o = <<locals["y"], locals["x"]>>

\* Two lists of fields have the same names, or are unnamed and as long.
SameShape(fs1, fs2) ==
    IF Len(fs1) > 0 /\ IsSome(fs1[1].name)
    THEN Len(fs2) > 0 /\ IsSome(fs2[1].name) /\ FieldNames(fs1) = FieldNames(fs2)
    ELSE Len(fs1) = Len(fs2) /\ (Len(fs2) > 0 => ~IsSome(fs2[1].name))
\* The tag word of the record that event k returned.
TagAt(k) == HeapGet(heap, trace[k].v)

\* C6: the tag of a record is a function of its shape and is injective: the
\* table has one entry for a set of field names or an arity, no two entries
\* have the same tag, every shape collected from the program is in the
\* table, and two record literals evaluated in a run have the same tag
\* exactly when they have the same shape, which is the tag of the table.
RecordTagOfShape ==
    LET tags == pgm.record_ty_tags
    IN /\ \A s1, s2 \in DOMAIN tags : tags[s1] = tags[s2] => s1 = s2
       /\ \A s1, s2 \in DOMAIN tags :
             (/\ s1.sh = s2.sh
              /\ Range(s1.fields) = Range(s2.fields)
              /\ s1.arity = s2.arity) => s1 = s2
       /\ status # "abort" => collect_records(ast) \subseteq DOMAIN tags
       /\ \A k \in DOMAIN trace :
             (trace[k].ev = "eval" /\ trace[k].e.t = "Record") =>
                /\ \E sh \in DOMAIN tags :
                      IF Len(trace[k].e.fields) > 0 /\ IsSome(trace[k].e.fields[1].name)
                      THEN sh.sh = "NamedFields"
                           /\ Range(sh.fields) = FieldNames(trace[k].e.fields)
                      ELSE sh.sh = "UnnamedFields" /\ sh.arity = Len(trace[k].e.fields)
                /\ k < Len(trace) /\ trace[k + 1].ev = "alloc"
                /\ \E sh \in DOMAIN tags :
                      /\ tags[sh] = trace[k + 1].tag
                      /\ IF Len(trace[k].e.fields) > 0 /\ IsSome(trace[k].e.fields[1].name)
                         THEN sh.sh = "NamedFields"
                              /\ Range(sh.fields) = FieldNames(trace[k].e.fields)
                         ELSE sh.sh = "UnnamedFields" /\ sh.arity = Len(trace[k].e.fields)
       /\ \A j, k \in DOMAIN trace :
             (/\ ValExit(j) /\ trace[j].e.t = "Record"
              /\ ValExit(k) /\ trace[k].e.t = "Record")
                => (TagAt(j) = TagAt(k) <=> SameShape(trace[j].e.fields, trace[k].e.fields))

\* {b = 1, a = 2}, {a = 3, b = 4} and (5, 6) have been evaluated: the first
\* two have one tag and the third another.
RecordsOfTwoShapes ==
    \E i, j, k \in DOMAIN trace :
       /\ ValExit(i) /\ trace[i].e = Rec2("b", EInt(1), "a", EInt(2))
       /\ ValExit(j) /\ trace[j].e = Rec2("a", EInt(3), "b", EInt(4))
       /\ ValExit(k) /\ trace[k].e = ERecord(<<Positional(EInt(5)), Positional(EInt(6))>>)
       /\ TagAt(i) = TagAt(j) /\ TagAt(i) # TagAt(k)
       /\ Cardinality(DOMAIN pgm.record_ty_tags) >= 2

(***************************************************************************)
(* The tags of the value constructors                                      *)
(***************************************************************************)
\* The names of the value constructors of type ty as its declaration lists
\* them; a product type has one constructor without a name.
DeclConstrNames(ty) ==
    LET decl == ast[CHOOSE i \in DOMAIN ast : ast[i].d = "Type" /\ ast[i].name = ty]
    IN IF decl.rhs.k = "Sum"
       THEN [i \in DOMAIN decl.rhs.constrs |-> Some(decl.rhs.constrs[i].name)]
       ELSE <<None>>
\* The tags of type ty: one tag for a type without value constructors.
TagsOf(ty) ==
    LET ty_con == pgm.ty_cons[ty]
    IN IF ty_con.value_constrs = <<>> THEN {ty_con.type_tag}
       ELSE ty_con.type_tag..(ty_con.type_tag + Len(ty_con.value_constrs) - 1)

\* C7: the constructors of a type with k >= 1 value constructors have the
\* tags type_tag .. type_tag + k - 1 in the order of the declaration; no
\* other type, record shape or primitive tag 0..6 has one of these tags;
\* cons_by_tag at index t is the entry of the constructor with tag t, and a
\* canonical allocation stored there has t in its word 0.
ConstructorTagsContiguous ==
    \A ty \in DOMAIN pgm.ty_cons :
       LET ty_con == pgm.ty_cons[ty]
           k == Len(ty_con.value_constrs)
       IN k >= 1 =>
             /\ Len(DeclConstrNames(ty)) = k
             /\ \A i \in 1..k :
                   LET t == ty_con.type_tag + i - 1
                   IN /\ t + 1 \in DOMAIN pgm.cons_by_tag
                      /\ pgm.cons_by_tag[t + 1].info.k = "Named"
                      /\ pgm.cons_by_tag[t + 1].info.ty_name = ty
                      /\ pgm.cons_by_tag[t + 1].info.con_name = DeclConstrNames(ty)[i]
                      /\ pgm.cons_by_tag[t + 1].fields = ty_con.value_constrs[i].fields
                      /\ IsSome(pgm.cons_by_tag[t + 1].alloc)
                            => HeapGet(heap, Unwrap(pgm.cons_by_tag[t + 1].alloc)) = t
             /\ TagsOf(ty) \cap 0..(FIRST_TYPE_TAG - 1) = {}
             /\ \A other \in DOMAIN pgm.ty_cons \ {ty} : TagsOf(ty) \cap TagsOf(other) = {}
             /\ \A sh \in DOMAIN pgm.record_ty_tags : pgm.record_ty_tags[sh] \notin TagsOf(ty)

\* Bool is declared last, after types with ten constructors in all: False
\* and True have the tags 17 and 18 and canonical allocations with these
\* tags, and the records have tags after them.
BoolDeclaredLast ==
    /\ pgm.ty_cons["Opt"].type_tag = FIRST_TYPE_TAG
    /\ pgm.ty_cons["Bool"].type_tag = FIRST_TYPE_TAG + 10
    /\ pgm.cons_by_tag[FIRST_TYPE_TAG + 12].alloc = Some(pgm.true_alloc)
    /\ HeapGet(heap, pgm.true_alloc) = FIRST_TYPE_TAG + 11
    /\ \E sh \in DOMAIN pgm.record_ty_tags : pgm.record_ty_tags[sh] > FIRST_TYPE_TAG + 11
    /\ status = "done"

(***************************************************************************)
(* The order of evaluation                                                 *)
(***************************************************************************)
\* C8: the field expressions of a record literal are evaluated in the order
\* written, and the values of a literal with named fields are stored in the
\* sorted order of the names.
RecordFieldsInTextualOrder ==
    \A k \in DOMAIN trace :
       (trace[k].ev = "exit" /\ trace[k].k \in {"Val", "Ret"} /\ trace[k].e.t = "Record") =>
          LET made == ChildExprs(EntryOf(k), k)
          IN /\ Len(made) <= Len(trace[k].e.fields)
             /\ \A i \in DOMAIN made : made[i] = trace[k].e.fields[i].node
             /\ (trace[k].k = "Val" /\ NamedRecord(trace[k].e)) =>
                   \A i \in DOMAIN trace[k].e.fields :
                      trace[k].o[SlotOf(trace[k].e.fields,
                                        Unwrap(trace[k].e.fields[i].name))]
                         = Written(k, Unwrap(trace[k].e.fields[i].name))

\* {b = 1, a = 2} has evaluated the 2 before the 1.
SecondFieldEvaluatedFirst ==
    \E k \in DOMAIN trace :
       /\ ValExit(k) /\ trace[k].e = Rec2("b", EInt(1), "a", EInt(2))
       /\ ChildExprs(EntryOf(k), k) = <<EInt(2), EInt(1)>>

\* The receiver or the callee expression that a call evaluates before its
\* arguments: a callee that is a variable, a type or Type.name is not
\* evaluated.
CallPrefix(e) ==
    IF e.fun.t = "FieldSelect" /\ e.fun.object.t # "UpperVar" THEN <<e.fun.object>>
    ELSE IF e.fun.t \in {"Var", "UpperVar", "FieldSelect"} THEN <<>>
    ELSE <<e.fun>>
HasReceiver(e) == e.fun.t = "FieldSelect" /\ e.fun.object.t # "UpperVar"
ExpectedChildren(e) == CallPrefix(e) \o [i \in DOMAIN e.args |-> e.args[i].expr]
\* The events of the evaluation entered at n and returned at k that are not
\* part of one of its sub-evaluations.
OwnEvents(n, k) ==
    {j \in (n + 1)..(k - 1) : \A c \in ChildEntries(n, k) : j < c \/ j > ExitOf(c)}
\* The declared fields of the constructor that the call e names, if it names one.
NamesConstr(e) ==
    \/ e.fun.t = "UpperVar"
    \/ e.fun.t = "FieldSelect" /\ e.fun.object.t = "UpperVar" /\ IsUppercase(e.fun.field)
ConstrFields(e) ==
    IF e.fun.t = "UpperVar" THEN pgm.ty_cons[e.fun.ty].value_constrs[1].fields
    ELSE LET cs == pgm.ty_cons[e.fun.object.ty].value_constrs
         IN cs[CHOOSE i \in DOMAIN cs : cs[i].name = Some(e.fun.field)].fields

\* C9: a call evaluates its receiver or callee expression and then its
\* arguments in the order written, each once; the body of the callee and
\* the allocation of the object start after the last argument has
\* returned; the callee gets the values in that order, and a constructor
\* stores a named argument in the declared slot of its name.
ArgsLeftToRight ==
    \A k \in DOMAIN trace :
       (trace[k].ev = "exit" /\ trace[k].k \in {"Val", "Ret"} /\ trace[k].e.t = "Call") =>
          LET e == trace[k].e
              n == EntryOf(k)
              made == Children(n, k)
              pre == Len(CallPrefix(e))
              value(i) == trace[ExitOf(made[i])].v
              own == OwnEvents(n, k)
          IN /\ Len(made) <= Len(ExpectedChildren(e))
             /\ \A i \in DOMAIN made : trace[made[i]].e = ExpectedChildren(e)[i]
             /\ trace[k].k = "Val" => Len(made) = Len(ExpectedChildren(e))
             /\ \A j \in own : \A c \in ChildEntries(n, k) : j > ExitOf(c)
             /\ \A j \in own :
                   (/\ trace[j].ev = "call" /\ trace[j].d = trace[n].d + 1
                    /\ \A m \in own : m >= j)
                      => trace[j].args =
                            IF HasReceiver(e) THEN [i \in DOMAIN made |-> value(i)]
                            ELSE [i \in DOMAIN e.args |-> value(i + pre)]
             /\ (trace[k].k = "Val" /\ NamesConstr(e)) =>
                   \A i \in DOMAIN e.args :
                      IF IsSome(e.args[i].name)
                      THEN LET names == ConstrFields(e).names
                               slot == CHOOSE x \in DOMAIN names :
                                          names[x] = Unwrap(e.args[i].name)
                           IN Unwrap(e.args[i].name) \in Range(names)
                                 => trace[k].o[slot] = value(i)
                      ELSE trace[k].o[i] = value(i)

\* second(id(1), second(2, 3)) has evaluated its two arguments, called
\* second with the value of the inner call as b, and returned the 3.
CallsReturned ==
    \E k \in DOMAIN trace :
       /\ ValExit(k)
       /\ trace[k].e = CallFun("second", <<Arg(CallFun("id", <<IntArg(1)>>)),
                                          Arg(CallFun("second", <<IntArg(2), IntArg(3)>>))>>)
       /\ Len(Children(EntryOf(k), k)) = 2
       /\ HeapGet(heap, trace[k].v + 1) = 3
       /\ \E j \in OwnEvents(EntryOf(k), k) :
             trace[j].ev = "call" /\ trace[j].fun.name = "second" /\ trace[j].args[2] = trace[k].v

(***************************************************************************)
(* The variable of a `for`                                                 *)
(***************************************************************************)
\* The last event before k at which the `for` that ends at event k started
\* its loop or finished a run of its body.
LoopEvents(k) ==
    {j \in 1..(k - 1) :
        /\ trace[j].ev \in {"loop", "body"}
        /\ trace[j].var = trace[k].var
        /\ SamePlace(j, k)}
LastLoopEvent(k) == CHOOSE j \in LoopEvents(k) : \A m \in LoopEvents(k) : m <= j

\* C10: when a `for` ends, with its range exhausted (or empty) or with a
\* Ret from its body, its variable is not bound, whether or not it was
\* bound before the loop, and every other binding is as the last run of
\* the body left it (as it was before the loop when there was no run).
ForRemovesVar ==
    /\ \A k \in DOMAIN trace :
          trace[k].ev = "for" =>
             /\ LoopEvents(k) # {}
             /\ trace[k].var \notin DOMAIN trace[k].env
             /\ trace[k].env = MapRemove(trace[LastLoopEvent(k)].env, trace[k].var)
    /\ (status = "run" /\ pc > 1 /\ MainBody[pc - 1].s = "For") =>
          /\ trace[Len(trace)].ev = "for"
          /\ locals = trace[Len(trace)].env
    /\ (/\ status = "done" /\ pc <= Len(MainBody) /\ MainBody[pc].s = "For"
        /\ Len(trace) > 1 /\ trace[Len(trace) - 1].ev = "for")
          => locals = trace[Len(trace) - 1].env

\* A loop over i that started with i bound has ended after two runs of its
\* body, with i not bound and x as the second run left it.
ForRemovedOuterBinding ==
    \E k \in DOMAIN trace :
       /\ trace[k].ev = "for" /\ trace[k].var = "i" /\ trace[k].d = 0
       /\ \E j \in LoopEvents(k) : trace[j].ev = "loop" /\ "i" \in DOMAIN trace[j].env
       /\ Cardinality({j \in LoopEvents(k) : trace[j].ev = "body"}) = 2
       /\ status = "run" /\ pc = 4
       /\ "i" \notin DOMAIN locals
       /\ HeapGet(heap, locals["x"] + 1) = 1

\* The event that ends the `for` whose head is event h: the first "for"
\* event of its variable at its place after h, Len(trace) + 1 when the
\* statement did not end.
ForEnd(h) ==
    LET es == {k \in (h + 1)..Len(trace) :
                  trace[k].ev = "for" /\ trace[k].var = trace[h].var /\ SamePlace(k, h)}
    IN IF es = {} THEN Len(trace) + 1 ELSE CHOOSE k \in es : \A o \in es : k <= o
\* The starts of the iterations of that `for`, in order.
ItersOf(h) ==
    InOrder({j \in (h + 1)..(ForEnd(h) - 1) :
                trace[j].ev = "iter" /\ trace[j].var = trace[h].var /\ SamePlace(j, h)})
\* The integer in the I32 box at address a.
IntAt(a) == AsI32(HeapGet(heap, a + 1))
IsI32(a) == HeapGet(heap, a) = I32_TYPE_TAG

\* C11: a `for` evaluates `from`, then `to`, each once, before its loop;
\* its iterations are those of the integers from `from` up to `to`
\* (exclusive, or inclusive for ..=) in increasing order, each starting
\* with the variable bound to a new I32 box of the integer; a loop that
\* ends without a Ret has run one iteration for each of these integers,
\* whatever its body assigned.
ForIterates ==
    \A h \in DOMAIN trace :
       trace[h].ev = "head" =>
          LET range == trace[h].stmt.expr
              from == ExitOf(h + 1)
              to == ExitOf(from + 1)
              last == IF range.inclusive THEN IntAt(trace[to].v) ELSE IntAt(trace[to].v) - 1
              iters == ItersOf(h)
              end == ForEnd(h)
          IN /\ h < Len(trace) /\ trace[h + 1].ev = "eval" /\ trace[h + 1].e = range.from
             /\ SamePlace(h + 1, h) /\ HasExit(h + 1)
             /\ (trace[from].k = "Val" /\ IsI32(trace[from].v)) =>
                   /\ from < Len(trace) /\ trace[from + 1].ev = "eval"
                   /\ trace[from + 1].e = range.to
                   /\ SamePlace(from + 1, h) /\ HasExit(from + 1)
                   /\ (trace[to].k = "Val" /\ IsI32(trace[to].v)) =>
                         /\ to < Len(trace) /\ trace[to + 1].ev = "loop"
                         /\ \A n \in DOMAIN iters :
                               LET it == trace[iters[n]]
                               IN /\ it.i = IntAt(trace[from].v) + n - 1
                                  /\ it.i <= last
                                  /\ it.addr >= it.hp
                                  /\ it.env[it.var] = it.addr
                                  /\ IsI32(it.addr) /\ IntAt(it.addr) = it.i
                                  /\ iters[n] > to + 1
                         /\ (end <= Len(trace)
                             /\ ~(end < Len(trace) /\ trace[end + 1].ev = "exec"))
                               => Len(iters) =
                                     IF last < IntAt(trace[from].v) THEN 0
                                     ELSE last - IntAt(trace[from].v) + 1

\* `let o = 2; for i in 0..o { o = 5 }` has ended after two iterations,
\* with o bound to the 5.
ForRanTwice ==
    \E h \in DOMAIN trace :
       /\ trace[h].ev = "head" /\ trace[h].stmt.expr.to = EVar("o")
       /\ Len(ItersOf(h)) = 2 /\ ForEnd(h) = Len(trace)
       /\ status = "run" /\ pc = 3 /\ IntAt(locals["o"]) = 5

\* The tag word of the object at address a.
TagOf(a) == HeapGet(heap, a)
\* The Str that the string value at a keeps its bytes in.
BackingOf(a) == IF TagOf(a) = STR_TYPE_TAG THEN a ELSE HeapGet(heap, a + 1)

\* C12: matching a Str or StrView of bytes B against `pfx + rest` succeeds
\* iff B starts with pfx; on success rest alone is bound, to a new StrView
\* on the backing Str of the value whose byte length is Len(B) - Len(pfx)
\* and whose bytes are B without its first Len(pfx) bytes; on failure
\* nothing is bound.
StrPfxBindsTail ==
    \A k \in DOMAIN trace :
       (/\ trace[k].ev = "try" /\ trace[k].pat.p = "StrPfx"
        /\ TagOf(trace[k].value) \in {STR_TYPE_TAG, STR_VIEW_TYPE_TAG}) =>
          LET pfx == trace[k].pat.pfx
              B == IF TagOf(trace[k].value) = STR_TYPE_TAG THEN str_bytes(heap, trace[k].value)
                   ELSE str_view_bytes(heap, trace[k].value)
              rest == trace[k].binds[trace[k].pat.var]
          IN /\ ~trace[k].panic
             /\ trace[k].ok <=> StartsWith(B, pfx)
             /\ ~trace[k].ok => trace[k].binds = EmptyMap
             /\ trace[k].ok =>
                   /\ DOMAIN trace[k].binds = {trace[k].pat.var}
                   /\ rest >= trace[k].hp
                   /\ TagOf(rest) = STR_VIEW_TYPE_TAG
                   /\ BackingOf(rest) = BackingOf(trace[k].value)
                   /\ HeapGet(heap, rest + 3) = Len(B) - Len(pfx)
                   /\ str_view_bytes(heap, rest) = SubSeq(B, Len(pfx) + 1, Len(B))

\* The input "hi" was matched against "h" + rest, and rest is a view of
\* the input at offset 1 whose byte length is 2.
RestLongerThanTail ==
    \E k \in DOMAIN trace :
       /\ trace[k].ev = "try" /\ trace[k].pat = PStrPfx(H, "rest") /\ trace[k].ok
       /\ trace[k].value = locals["input"]
       /\ str_bytes(heap, trace[k].value) = HI
       /\ "rest" \in DOMAIN locals /\ locals["rest"] = trace[k].binds["rest"]
       /\ HeapGet(heap, locals["rest"] + 1) = locals["input"]
       /\ HeapGet(heap, locals["rest"] + 2) = 1
       /\ HeapGet(heap, locals["rest"] + 3) = 2

\* The events of kind ev that the evaluation entered at n and returned at x
\* logged itself, in order.
OwnOfKind(n, x, ev) ==
    InOrder({j \in (n + 1)..(x - 1) :
                trace[j].ev = ev /\ trace[j].d = trace[n].d /\ trace[j].l = trace[n].l + 1})
\* The expressions that the statements of a right-hand side made of `let`
\* and expression statements evaluate, in order.
StmtExprs(stmts) ==
    [i \in DOMAIN stmts |-> IF stmts[i].s = "Expr" THEN stmts[i].expr ELSE stmts[i].rhs]
LetsAndExprs(stmts) == \A i \in DOMAIN stmts : stmts[i].s \in {"Expr", "Let"}
IsPrefix(p, q) == Len(p) <= Len(q) /\ \A i \in DOMAIN p : p[i] = q[i]

\* C13: a match evaluates its scrutinee once, first; it tries the patterns
\* of its alternatives in textual order on the scrutinee's value, up to the
\* first that binds and no further; it executes the right-hand side of
\* that alternative, and of no other, in the environment extended with the
\* bindings; when no alternative binds it aborts.
MatchTakesFirst ==
    \A n \in DOMAIN trace :
       (trace[n].ev = "eval" /\ trace[n].e.t = "Match" /\ HasExit(n)) =>
          LET e == trace[n].e
              x == ExitOf(n)
              sx == ExitOf(n + 1)
              tries == OwnOfKind(n, x, "try")
              arms == OwnOfKind(n, x, "arm")
              kids == Children(n, x)
              rhs == [i \in 1..(Len(kids) - 1) |-> trace[kids[i + 1]].e]
              last == trace[tries[Len(tries)]]
          IN /\ kids # <<>> /\ kids[1] = n + 1 /\ trace[n + 1].e = e.scrutinee
             /\ \A j \in DOMAIN tries : tries[j] > sx
             /\ \A j \in 2..Len(kids) : kids[j] > sx /\ arms # <<>> /\ kids[j] > arms[1]
             /\ trace[sx].k # "Val" =>
                   tries = <<>> /\ arms = <<>> /\ trace[x].k = trace[sx].k
             /\ trace[sx].k = "Val" =>
                   /\ Len(tries) <= Len(e.alts) /\ Len(arms) <= 1
                   /\ \A j \in DOMAIN tries :
                         /\ trace[tries[j]].alt = j
                         /\ trace[tries[j]].pat = e.alts[j].pattern
                         /\ trace[tries[j]].value = trace[sx].v
                         /\ j < Len(tries) => ~trace[tries[j]].ok /\ ~trace[tries[j]].panic
                   /\ (tries = <<>> \/ (~last.ok /\ ~last.panic)) =>
                         /\ Len(tries) = Len(e.alts)
                         /\ arms = <<>> /\ Len(kids) = 1
                         /\ trace[x].k = "Abort"
                   /\ (tries # <<>> /\ last.ok) =>
                         /\ Len(arms) = 1 /\ arms[1] = tries[Len(tries)] + 1
                         /\ trace[arms[1]].alt = Len(tries)
                         /\ trace[arms[1]].env = MapExtend(last.env, last.binds)
                         /\ LetsAndExprs(e.alts[Len(tries)].rhs) =>
                               /\ IsPrefix(rhs, StmtExprs(e.alts[Len(tries)].rhs))
                               /\ trace[x].k = "Val" =>
                                     Len(rhs) = Len(e.alts[Len(tries)].rhs)

\* A match has taken its second alternative, an or-pattern, where the
\* third and the fourth would have bound too, and has run the two
\* statements of its right-hand side.
SecondOfFourTaken ==
    \E n \in DOMAIN trace :
       /\ trace[n].ev = "eval" /\ trace[n].e.t = "Match" /\ Len(trace[n].e.alts) = 4
       /\ HasExit(n) /\ ValExit(ExitOf(n))
       /\ Len(OwnOfKind(n, ExitOf(n), "try")) = 2
       /\ Len(Children(n, ExitOf(n))) = 3
       /\ "y" \in DOMAIN locals /\ "x" \notin DOMAIN locals

\* The index (from 0) in its type of the constructor a pattern names and
\* the fields the type declares for it.
ConstrIdx(pat) == FindConstr(pgm.ty_cons[pat.type_].value_constrs, Unwrap(pat.constr))
DeclFields(pat) == pgm.ty_cons[pat.type_].value_constrs[ConstrIdx(pat) + 1].fields
\* The payload slot of the i-th field pattern: its position, or the
\* position of its name among the declared names.
PatSlot(pat, i) ==
    IF DeclFields(pat).f = "Unnamed" THEN i
    ELSE 1 + FindName(DeclFields(pat).names, Unwrap(pat.fields[i].name))

RECURSIVE WellFormedPat(_), PatMatches(_, _), PatBindings(_, _)
\* A pattern of variables, wildcards and constructor patterns `T.C(..)`
\* with C a constructor of T and field patterns that are those of C.
WellFormedPat(pat) ==
    CASE pat.p \in {"Var", "Ignore"} -> TRUE
      [] pat.p = "Constr" ->
            /\ pat.type_ \in DOMAIN pgm.ty_cons /\ IsSome(pat.constr) /\ ConstrIdx(pat) >= 0
            /\ Len(pat.fields) = DeclFields(pat).n
            /\ IF DeclFields(pat).f = "Unnamed"
               THEN \A i \in DOMAIN pat.fields : pat.fields[i].name = None
               ELSE /\ \A i \in DOMAIN pat.fields : IsSome(pat.fields[i].name)
                    /\ {Unwrap(pat.fields[i].name) : i \in DOMAIN pat.fields}
                          = Range(DeclFields(pat).names)
            /\ \A i \in DOMAIN pat.fields : WellFormedPat(pat.fields[i].node)
      [] OTHER -> FALSE
\* The value at v has the tag of the constructor and each field pattern
\* matches the word in its slot.
PatMatches(pat, v) ==
    IF pat.p # "Constr" THEN TRUE
    ELSE /\ HeapGet(heap, v) = pgm.ty_cons[pat.type_].type_tag + ConstrIdx(pat)
         /\ \A i \in DOMAIN pat.fields :
               PatMatches(pat.fields[i].node, HeapGet(heap, v + PatSlot(pat, i)))
\* The bindings of a pattern that matches, as a set of pairs.
PatBindings(pat, v) ==
    CASE pat.p = "Var" -> {<<pat.var, v>>}
      [] pat.p = "Ignore" -> {}
      [] pat.p = "Constr" ->
            UNION {PatBindings(pat.fields[i].node, HeapGet(heap, v + PatSlot(pat, i))) :
                     i \in DOMAIN pat.fields}
Pairs(m) == {<<n, m[n]>> : n \in DOMAIN m}

\* C14: a constructor pattern T.C(p1..pn) binds a value iff the value's tag
\* is T.type_tag + index_of(C) and each field pattern binds the payload
\* slot of its position, or of its name; the bindings are then the union
\* of those of the field patterns; a value of a tag that is not C's (in
\* T's range or outside it) fails without an abort.
ConstrPatBinds ==
    \A k \in DOMAIN trace :
       (/\ trace[k].ev = "try" /\ trace[k].pat.p = "Constr"
        /\ trace[k].pat.type_ \in DOMAIN pgm.ty_cons
        /\ IsSome(trace[k].pat.constr) /\ ConstrIdx(trace[k].pat) >= 0) =>
          /\ HeapGet(heap, trace[k].value)
                # pgm.ty_cons[trace[k].pat.type_].type_tag + ConstrIdx(trace[k].pat)
                => ~trace[k].ok /\ ~trace[k].panic
          /\ WellFormedPat(trace[k].pat) =>
                /\ ~trace[k].panic
                /\ trace[k].ok <=> PatMatches(trace[k].pat, trace[k].value)
                /\ trace[k].ok =>
                      Pairs(trace[k].binds) = PatBindings(trace[k].pat, trace[k].value)
                /\ ~trace[k].ok => trace[k].binds = EmptyMap

\* Sh.Box(x = 1, y = Opt.At(2, 3)) failed Sh.Dot and two Sh.Box patterns
\* whose pattern for y is of another variant of Opt, and bound
\* Sh.Box(x = a, y = Opt.At(q, b)).
NestedConstrPatBound ==
    \E k \in DOMAIN trace :
       /\ trace[k].ev = "try" /\ trace[k].alt = 4 /\ trace[k].ok
       /\ trace[k].pat = PBox(PVar("a"), PAt(PVar("q"), PVar("b")))
       /\ DOMAIN trace[k].binds = {"a", "q", "b"}
       /\ IntAt(trace[k].binds["a"]) = 1 /\ IntAt(trace[k].binds["q"]) = 2
       /\ IntAt(trace[k].binds["b"]) = 3

\* The evaluation entered at n is of an index expression whose two
\* sub-expressions returned values: the first an Array, the second an I32.
IndexOfArray(n) ==
    /\ trace[n].ev = "eval" /\ trace[n].e.t = "ArrayIndex" /\ HasExit(n)
    /\ Len(Children(n, ExitOf(n))) = 2
    /\ \A i \in 1..2 : ValExit(ExitOf(Children(n, ExitOf(n))[i]))
ArrayOf(n) == trace[ExitOf(Children(n, ExitOf(n))[1])].v
IndexOf(n) == trace[ExitOf(Children(n, ExitOf(n))[2])].v

\* C15: a[i] on an array of length len returns the element word of slot i
\* when 0 <= i < len, reading that word alone; when i >= len or i < 0 it
\* aborts and reads no element word.
ArrayIndexChecksBounds ==
    \A n \in DOMAIN trace :
       (/\ IndexOfArray(n)
        /\ TagOf(ArrayOf(n)) = ARRAY_TYPE_TAG /\ IsI32(IndexOf(n))) =>
          LET a == ArrayOf(n)
              i == IntAt(IndexOf(n))
              len == HeapGet(heap, a + 1)
              x == ExitOf(n)
              reads == OwnOfKind(n, x, "read")
          IN /\ trace[Children(n, x)[1]].e = trace[n].e.array
             /\ trace[Children(n, x)[2]].e = trace[n].e.index
             /\ (0 <= i /\ i < len) =>
                   /\ ValExit(x) /\ trace[x].v = HeapGet(heap, a + 2 + i)
                   /\ Len(reads) = 1 /\ trace[reads[1]].addr = a + 2 + i
             /\ (i < 0 \/ i >= len) => trace[x].k = "Abort" /\ reads = <<>>

\* a[1] of the array [5, 6] returned the box of 6 that a.set(1, 6) stored.
SecondElementReturned ==
    /\ status = "run" /\ pc = 5 /\ "a" \in DOMAIN locals
    /\ TagOf(locals["a"]) = ARRAY_TYPE_TAG /\ HeapGet(heap, locals["a"] + 1) = 2
    /\ return_value = HeapGet(heap, locals["a"] + 3)
    /\ IsI32(return_value) /\ IntAt(return_value) = 6
    /\ IntAt(HeapGet(heap, locals["a"] + 2)) = 5

\* C16: a[i] aborts when the value of a is not an Array or the value of i
\* is not an I32; it returns no payload word of such an object.
ArrayIndexChecksTags ==
    \A n \in DOMAIN trace :
       (/\ IndexOfArray(n)
        /\ (TagOf(ArrayOf(n)) # ARRAY_TYPE_TAG \/ ~IsI32(IndexOf(n)))) =>
          trace[ExitOf(n)].k = "Abort"

\* input[0] on the Str "hi" returned the word after the length of the
\* string, the byte `h`.
StrIndexedAsArray ==
    \E n \in DOMAIN trace :
       /\ IndexOfArray(n) /\ trace[n].e = EArrayIndex(EVar("input"), EInt(0))
       /\ ArrayOf(n) = locals["input"] /\ TagOf(ArrayOf(n)) = STR_TYPE_TAG
       /\ ValExit(ExitOf(n)) /\ trace[ExitOf(n)].v = 104
       /\ status = "run" /\ return_value = 104

\* The source function that the call e names directly: a top-level
\* function, or a method of the value the receiver returned at event r.
IsFunCall(e) == e.fun.t = "Var" /\ e.fun.var \in DOMAIN pgm.top_level_funs
\* The arguments of the call e are not those of the fields fs: another
\* number of them, or a name that is not a field's.
WrongArgs(e, fs) ==
    \/ Len(e.args) # fs.n
    \/ /\ fs.f = "Named"
       /\ \E i \in DOMAIN e.args :
             IsSome(e.args[i].name) /\ Unwrap(e.args[i].name) \notin Range(fs.names)

\* C17: a wrong argument count is fatal.  A source function is entered
\* with as many arguments as it has parameters (self included) and a call
\* of a top-level function with another number aborts without entering
\* it; a call of a constructor with a number of arguments that is not its
\* number of fields, or with a named argument that is not one of its
\* fields, aborts; every object allocated for a constructor has
\* 1 + its number of fields words.
WrongArgCountAborts ==
    /\ \A k \in DOMAIN trace :
          trace[k].ev = "call" =>
             /\ Len(trace[k].args) = num_params(trace[k].fun)
             /\ DOMAIN trace[k].env =
                   {trace[k].fun.params[i].name : i \in DOMAIN trace[k].fun.params}
                      \cup (IF trace[k].fun.self_ THEN {"self"} ELSE {})
    /\ \A n \in DOMAIN trace :
          (/\ trace[n].ev = "eval" /\ trace[n].e.t = "Call" /\ HasExit(n)
           /\ IsFunCall(trace[n].e) /\ trace[n].e.fun.var \notin DOMAIN locals
           /\ pgm.top_level_funs[trace[n].e.fun.var].kind = "Source"
           /\ Len(trace[n].e.args)
                 # num_params(Unwrap(pgm.top_level_funs[trace[n].e.fun.var].decl))) =>
             /\ trace[ExitOf(n)].k # "Val"
             /\ \A j \in n..ExitOf(n) :
                   ~(trace[j].ev = "call" /\ trace[j].d = trace[n].d + 1)
    /\ \A n \in DOMAIN trace :
          (/\ trace[n].ev = "eval" /\ trace[n].e.t = "Call" /\ HasExit(n)
           /\ NamesConstr(trace[n].e)
           /\ WrongArgs(trace[n].e, ConstrFields(trace[n].e))) =>
             trace[ExitOf(n)].k # "Val"
    /\ \A k \in DOMAIN trace :
          (trace[k].ev = "alloc" /\ ValidTag(trace[k].tag)) =>
             trace[k].words = 1 + get_tag_fields(trace[k].tag).n

\* Pt(x = 1, y = 2, a = 3) returned an object of four words for the two
\* fields of Pt.
PtOfFourWords ==
    \E k \in DOMAIN trace :
       /\ trace[k].ev = "alloc" /\ trace[k].tag = pgm.ty_cons["Pt"].type_tag
       /\ trace[k].words = 4 /\ get_tag_fields(trace[k].tag).n = 2
       /\ status = "run" /\ return_value = trace[k].addr
       /\ IntAt(HeapGet(heap, return_value + 1)) = 1
       /\ IntAt(HeapGet(heap, return_value + 2)) = 2

\* The constructor names of the declarations of Bool in the program, one
\* sequence for each declaration.
BoolDecls ==
    {[j \in DOMAIN ast[i].rhs.constrs |-> ast[i].rhs.constrs[j].name] :
        i \in {k \in DOMAIN ast : ast[k].d = "Type" /\ ast[k].name = "Bool"
                                    /\ ast[k].rhs.k = "Sum"}}
\* The object model was built: main has run, or may.
Built == status # "abort" \/ trace # <<>>

\* C18: the object model is built only for a program that declares Bool
\* with exactly the two constructors False and True, in that order;
\* false_alloc and true_alloc are then the canonical allocations of the
\* two, at distinct addresses, with the tag words Bool.type_tag and
\* Bool.type_tag + 1.
BoolIsFalseTrue ==
    Built =>
       /\ BoolDecls = {<<"False", "True">>}
       /\ "Bool" \in DOMAIN pgm.ty_cons
       /\ Some(pgm.false_alloc) = ConAlloc(pgm.cons_by_tag, pgm.ty_cons["Bool"].type_tag)
       /\ Some(pgm.true_alloc) = ConAlloc(pgm.cons_by_tag, pgm.ty_cons["Bool"].type_tag + 1)
       /\ pgm.false_alloc # pgm.true_alloc
       /\ HeapGet(heap, pgm.false_alloc) = pgm.ty_cons["Bool"].type_tag
       /\ HeapGet(heap, pgm.true_alloc) = pgm.ty_cons["Bool"].type_tag + 1

\* A program that declares Bool with the constructors False, True and
\* Maybe has run and returned Bool.Maybe.
ThreeBoolsRan ==
    /\ BoolDecls = {<<"False", "True", "Maybe">>}
    /\ status = "done"
    /\ HeapGet(heap, result) = pgm.ty_cons["Bool"].type_tag + 2

\* The assignments to a field with `=`, each at the event assign logs when
\* it has the value of the object.
FieldAssigns ==
    {k \in DOMAIN trace : trace[k].ev = "assign" /\ trace[k].lhs.t = "FieldSelect"
                                                  /\ trace[k].op = "Eq"}
\* The names of the fields of the object of assignment k, none when they
\* are unnamed.
FieldNamesAt(k) ==
    LET tag == HeapGet(trace[k].hp, trace[k].object)
    IN IF ValidTag(tag) /\ pgm.cons_by_tag[tag + 1].fields.f = "Named"
       THEN pgm.cons_by_tag[tag + 1].fields.names ELSE <<>>
\* The address of the field assignment k names.
FieldAddr(k) ==
    trace[k].object + (CHOOSE i \in DOMAIN FieldNamesAt(k) :
                           FieldNamesAt(k)[i] = trace[k].lhs.field)
\* No assignment is logged strictly between k and n.
NoAssignBetween(k, n) == \A j \in (k + 1)..(n - 1) : trace[j].ev # "assign"

\* C19: `obj.f = e` on an object whose tag has a named field f leaves the
\* heap pointer, the environment and every heap word as they were, but
\* for the word of f, which is then the value of e, and that is what
\* `obj.f` evaluates to until the next assignment; on any other object it
\* aborts with the heap as it was.
FieldAssignWritesOneWord ==
    \A k \in FieldAssigns :
       IF trace[k].lhs.field \in Range(FieldNamesAt(k))
       THEN /\ k < Len(trace)
            /\ trace[k + 1].ev = "assigned"
            /\ trace[k + 1].env = trace[k].env
            /\ trace[k + 1].hp.hp = trace[k].hp.hp
            /\ DOMAIN trace[k + 1].hp.values = DOMAIN trace[k].hp.values
            /\ \A a \in DOMAIN trace[k].hp.values :
                  trace[k + 1].hp.values[a] =
                     IF a = FieldAddr(k) + 1 THEN trace[k].val ELSE trace[k].hp.values[a]
            /\ \A n \in (k + 1)..Len(trace) :
                  (/\ trace[n].ev = "exit"
                   /\ trace[n].e = trace[k].lhs
                   /\ trace[n].d = trace[k].d
                   /\ trace[k].lhs.object.t = "Var"
                   /\ NoAssignBetween(k, n))
                  => trace[n].k = "Val" /\ trace[n].v = trace[k].val
       ELSE /\ k = Len(trace)
            /\ status = "abort"
            /\ heap = trace[k].hp
            /\ locals = trace[k].env

\* `p.x = 5` was done with two points allocated, and `p.x` then gave the
\* 5 while the other words of p and q are 2, 3 and 4.
FieldOfOneOfTwoPointsSet ==
    /\ status = "done"
    /\ FieldAssigns # {}
    /\ {"p", "q"} \subseteq DOMAIN locals
    /\ locals["p"] # locals["q"]
    /\ IsI32(result) /\ IntAt(result) = 5
    /\ HeapGet(heap, locals["p"] + 1) = result
    /\ IntAt(HeapGet(heap, locals["p"] + 2)) = 2
    /\ IntAt(HeapGet(heap, locals["q"] + 1)) = 3
    /\ IntAt(HeapGet(heap, locals["q"] + 2)) = 4

\* The assignments to a variable, each at the event assign logs on entry.
VarAssigns == {k \in DOMAIN trace : trace[k].ev = "assign" /\ trace[k].lhs.t = "Var"}

\* C20: `x = e` with x bound leaves the environment with x mapped to the
\* value e was evaluated to and every other binding as it was; with x
\* unbound, and for `x += e` and `x -= e` always, the program aborts with
\* the environment as it was.
VarAssignNeedsBinding ==
    \A k \in VarAssigns :
       /\ k > 1
       /\ trace[k - 1].ev = "exit" /\ trace[k - 1].k = "Val"
       /\ trace[k - 1].v = trace[k].val
       /\ IF trace[k].op = "Eq" /\ trace[k].lhs.var \in DOMAIN trace[k].env
          THEN /\ k < Len(trace)
               /\ trace[k + 1].ev = "assigned"
               /\ DOMAIN trace[k + 1].env = DOMAIN trace[k].env
               /\ \A x \in DOMAIN trace[k].env :
                     trace[k + 1].env[x] =
                        IF x = trace[k].lhs.var THEN trace[k].val ELSE trace[k].env[x]
          ELSE /\ k = Len(trace)
               /\ status = "abort"
               /\ locals = trace[k].env

\* `x = y; y = 3; x` has run with x and y bound to 1 and 2: x is now the 2
\* and y the 3.
BothVarsAssigned ==
    /\ status = "done"
    /\ Cardinality(VarAssigns) = 2
    /\ {"x", "y"} \subseteq DOMAIN locals
    /\ result = locals["x"]
    /\ IntAt(locals["x"]) = 2
    /\ IntAt(locals["y"]) = 3

\* The constructor names of the declarations of Ordering in the program.
OrderingDecls ==
    {[j \in DOMAIN ast[i].rhs.constrs |-> ast[i].rhs.constrs[j].name] :
        i \in {k \in DOMAIN ast : ast[k].d = "Type" /\ ast[k].name = "Ordering"
                                    /\ ast[k].rhs.k = "Sum"}}
\* The name of the variant of Ordering with this tag, "" when the tag is of
\* another type.
OrderingVariant(tag) ==
    LET idx == tag - pgm.ty_cons["Ordering"].type_tag + 1
        names == CHOOSE d \in OrderingDecls : TRUE
    IN IF idx \in DOMAIN names THEN names[idx] ELSE ""
\* What `a op b` is for the variant __cmp returned.
CmpTable(op, variant) ==
    CASE op = "Lt" -> variant = "Less"
      [] op = "Gt" -> variant = "Greater"
      [] op = "LtEq" -> variant \in {"Less", "Equal"}
      [] op = "GtEq" -> variant \in {"Greater", "Equal"}
Cmps == {k \in DOMAIN trace : trace[k].ev = "cmp"}

\* C21: once __cmp has returned, a comparison aborts unless Ordering is
\* declared with three variants named Less, Equal and Greater and the
\* returned value has the tag of one of them; it is then True for `<` iff
\* the variant is Less, for `>` iff Greater, for `<=` iff Less or Equal and
\* for `>=` iff Greater or Equal, and False otherwise.
CmpFollowsOrdering ==
    \A k \in Cmps :
       IF /\ \E d \in OrderingDecls : Len(d) = 3 /\ Range(d) = {"Less", "Equal", "Greater"}
          /\ OrderingVariant(trace[k].tag) # ""
       THEN /\ k < Len(trace)
            /\ trace[k + 1].ev = "exit"
            /\ trace[k + 1].e.t = "BinOp"
            /\ trace[k + 1].e.op \in {"Lt", "Gt", "LtEq", "GtEq"}
            /\ trace[k + 1].k = "Val"
            /\ trace[k + 1].v = IF CmpTable(trace[k + 1].e.op, OrderingVariant(trace[k].tag))
                                 THEN pgm.true_alloc ELSE pgm.false_alloc
       ELSE /\ status = "abort"
            /\ \A j \in (k + 1)..Len(trace) : trace[j].ev = "exit" /\ trace[j].k = "Abort"

\* `p <= v` has returned True for a user-defined __cmp that returned
\* Ordering.Equal.
LtEqOfEqualIsTrue ==
    /\ status = "done"
    /\ result = pgm.true_alloc
    /\ MainBody = CmpPt("LtEq", EConstrSelect("Ordering", "Equal"))
    /\ \E k \in Cmps : OrderingDecls # {} /\ OrderingVariant(trace[k].tag) = "Equal"

\* The values of the environment m.
EnvValues(m) == {m[x] : x \in DOMAIN m}
\* The number of payload slots of an object with this tag.
SlotsOfTag(tag) ==
    LET fields == pgm.cons_by_tag[tag + 1].fields
    IN IF fields.f = "Unnamed" THEN fields.n ELSE Len(fields.names)
\* The values that event k shows the evaluator handling: results, arguments,
\* environments, and the payload slots of an object a constructor made.
ValuesAt(k) ==
    CASE trace[k].ev = "exit" -> IF trace[k].k \in {"Val", "Ret"} THEN {trace[k].v} ELSE {}
      [] trace[k].ev \in {"exec", "return"} -> {trace[k].v}
      [] trace[k].ev = "call" -> Range(trace[k].args) \cup EnvValues(trace[k].env)
      [] trace[k].ev \in {"arm", "assign", "assigned"} -> EnvValues(trace[k].env)
      [] trace[k].ev = "alloc" ->
            IF trace[k].tag >= FIRST_TYPE_TAG /\ ValidTag(trace[k].tag)
            THEN {HeapGet(heap, trace[k].addr + i) : i \in 1..SlotsOfTag(trace[k].tag)}
            ELSE {}
      [] OTHER -> {}
HandledValues ==
    UNION {ValuesAt(k) : k \in DOMAIN trace}
       \cup EnvValues(locals) \cup {return_value}
       \cup (IF status = "done" THEN {result} ELSE {})

\* C22: every value the evaluator returned, passed, bound or stored is an
\* address below the heap pointer whose word is a valid tag.
HandledValuesAreObjects ==
    \A a \in HandledValues : a < heap.hp /\ ValidTag(HeapGet(heap, a))

\* `input[0]` has returned the first byte of the input string, which is no
\* address of the heap.
StrByteReturned ==
    /\ status = "done"
    /\ MainBody = <<SExpr(EArrayIndex(EVar("input"), EInt(0)))>>
    /\ result = 104
    /\ result >= heap.hp

WhileConds == {k \in DOMAIN trace : trace[k].ev = "cond"}
WhileStarts == {k \in DOMAIN trace : trace[k].ev = "wbody"}

\* C23: a `while` starts its body only straight after its condition has
\* the value true_alloc, and does so then (unless the bound on iterations
\* ends the run); straight after its condition has the value false_alloc
\* it ends with the value 0; after any other value of the condition the
\* body is not started.
WhileBodyOnlyOnTrue ==
    /\ \A k \in WhileStarts : k > 1 /\ k - 1 \in WhileConds
    /\ \A k \in WhileConds :
          CASE trace[k].v = pgm.true_alloc ->
                  IF k = Len(trace) THEN status = "diverge" ELSE k + 1 \in WhileStarts
            [] trace[k].v = pgm.false_alloc ->
                  /\ k < Len(trace)
                  /\ trace[k + 1].ev = "wend" /\ trace[k + 1].v = 0
            [] OTHER -> k + 1 \notin WhileStarts

\* `while Bool.True { return 1 }; 2` has returned 1 in a build without the
\* debug_assert: the condition was a fresh object with the tag of True.
WhileRanOnFreshTrue ==
    /\ status = "done"
    /\ ~debug
    /\ MainBody = WhileReturn(BoolTrue)
    /\ IsI32(result) /\ IntAt(result) = 1
    /\ \E k \in WhileConds :
          /\ trace[k].v # pgm.true_alloc
          /\ HeapGet(heap, trace[k].v) = HeapGet(heap, pgm.true_alloc)
          /\ k + 1 \in WhileStarts

\* The evaluations of `match` expressions that took an alternative and
\* came to a value.
MatchesDone ==
    {n \in DOMAIN trace :
        /\ trace[n].ev = "eval" /\ trace[n].e.t = "Match" /\ HasExit(n)
        /\ trace[ExitOf(n)].k = "Val"}
\* The "arm" event of match n, the "try" event before it and the "leave"
\* event before the exit.
ArmOf(n) == OwnOfKind(n, ExitOf(n), "arm")[1]
LeaveOf(n) == ExitOf(n) - 1
\* The variables of the `for` statements that ended, in the function of
\* match n, between its arm and its end.
ForVarsIn(n) ==
    {trace[j].var : j \in {i \in ArmOf(n)..LeaveOf(n) :
                              trace[i].ev = "for" /\ trace[i].d = trace[n].d}}
\* A block of `let x = e` and `e` statements with e a literal or a variable.
PlainBlock(stmts) ==
    \A i \in DOMAIN stmts :
       /\ stmts[i].s \in {"Expr", "Let"}
       /\ StmtExprs(stmts)[i].t \in {"Int", "Var"}
       /\ stmts[i].s = "Let" => stmts[i].lhs.p = "Var"
\* The environment a plain block leaves when entered with env, the values
\* of its statements being vals.
RECURSIVE AfterBlock(_, _, _)
AfterBlock(env, stmts, vals) ==
    IF stmts = <<>> THEN env
    ELSE AfterBlock(IF Head(stmts).s = "Let"
                    THEN MapInsert(env, Head(stmts).lhs.var, Head(vals)) ELSE env,
                    Tail(stmts), Tail(vals))
\* The values of the statements of the right-hand side of match n.
RhsVals(n) ==
    LET kids == Children(n, ExitOf(n))
    IN [i \in 1..(Len(kids) - 1) |-> trace[ExitOf(kids[i + 1])].v]

\* C24 as stated: when a match has come to a value, the names its pattern
\* bound are bound in the environment it leaves.
MatchBindingsStay ==
    \A n \in MatchesDone :
       /\ trace[LeaveOf(n)].ev = "leave"
       /\ DOMAIN trace[ArmOf(n) - 1].binds \subseteq DOMAIN trace[LeaveOf(n)].env

\* C24: when a match has come to a value, the environment it leaves has
\* every name of the environment of its arm (the one before the match,
\* extended and overwritten by the bindings of the pattern) but for the
\* variables of `for` statements that ended in the right-hand side; after a
\* right-hand side of plain `let` and expression statements, the
\* environment is that of the arm with the `let` bindings added, and so
\* for the blocks of an `if`.
MatchBindingsStayButFor ==
    /\ \A n \in MatchesDone :
          LET arm == trace[ArmOf(n)]
              try == trace[ArmOf(n) - 1]
              leave == trace[LeaveOf(n)]
              rhs == trace[n].e.alts[arm.alt].rhs
          IN /\ leave.ev = "leave" /\ try.ev = "try" /\ try.ok
             /\ arm.env = MapExtend(try.env, try.binds)
             /\ DOMAIN arm.env \subseteq DOMAIN leave.env \cup ForVarsIn(n)
             /\ PlainBlock(rhs) => leave.env = AfterBlock(arm.env, rhs, RhsVals(n))
    /\ \A n \in DOMAIN trace :
          (/\ trace[n].ev = "eval" /\ trace[n].e.t = "If" /\ HasExit(n)
           /\ trace[ExitOf(n)].k = "Val"
           /\ Len(trace[n].e.branches) = 1
           /\ PlainBlock(trace[n].e.branches[1].stmts)
           /\ IsSome(trace[n].e.else_branch) => PlainBlock(Unwrap(trace[n].e.else_branch)))
          => LET e == trace[n].e
                 cond == trace[ExitOf(n + 1)]
                 block == IF cond.v = pgm.true_alloc THEN e.branches[1].stmts
                          ELSE IF IsSome(e.else_branch) THEN Unwrap(e.else_branch)
                          ELSE <<>>
                 leave == trace[LeaveOf(n)]
             IN /\ leave.ev = "leave"
                /\ \A i \in DOMAIN block :
                      block[i].s = "Let" => block[i].lhs.var \in DOMAIN leave.env
                /\ Len(RhsVals(n)) = Len(block)
                /\ \A x \in DOMAIN leave.env :
                      \A i \in DOMAIN block :
                         (/\ block[i].s = "Let" /\ block[i].lhs.var = x
                          /\ \A j \in (i + 1)..Len(block) :
                                ~(block[j].s = "Let" /\ block[j].lhs.var = x))
                         => leave.env[x] = RhsVals(n)[i]

\* `match Opt.At(1, 2) { Opt.At(a, b) => { let a = b; let z = 4 } }; a`
\* has run: a, b and z are bound, a and b to the 2, and a is what main
\* returned.
ArmBindingsOutlivedMatch ==
    /\ status = "done"
    /\ MatchesDone # {}
    /\ {"a", "b", "z"} \subseteq DOMAIN locals
    /\ locals["a"] = locals["b"]
    /\ IntAt(locals["a"]) = 2
    /\ IntAt(locals["z"]) = 4
    /\ result = locals["a"]

\* The attempts at an alternative for which try_bind_pat returned None.
FailedTries ==
    {k \in DOMAIN trace : trace[k].ev = "try" /\ ~trace[k].ok /\ ~trace[k].panic}
\* A pattern with a string-prefix pattern in it.
RECURSIVE HasStrPfx(_)
HasStrPfx(pat) ==
    CASE pat.p = "StrPfx" -> TRUE
      [] pat.p \in {"Constr", "Record"} ->
            \E i \in DOMAIN pat.fields : HasStrPfx(pat.fields[i].node)
      [] pat.p = "Or" -> HasStrPfx(pat.pat1) \/ HasStrPfx(pat.pat2)
      [] OTHER -> FALSE

\* C25: an attempt for which try_bind_pat returned None is followed by
\* the attempt at the next alternative in the same environment, or by the
\* abort of a match with no alternative left; the heap it leaves is the
\* heap before it, extended by StrViews only, and by nothing when the
\* pattern has no string-prefix pattern.
FailedTryKeepsEnv ==
    \A k \in FailedTries :
       LET try == trace[k]
           new == (try.before.hp + 1)..try.after.hp
       IN /\ try.binds = EmptyMap
          /\ try.after.hp >= try.before.hp
          /\ \A a \in 1..try.before.hp : try.after.values[a] = try.before.values[a]
          /\ \A a \in new :
                (a - try.before.hp) % 4 = 1 => try.after.values[a] = STR_VIEW_TYPE_TAG
          /\ (try.after.hp - try.before.hp) % 4 = 0
          /\ ~HasStrPfx(try.pat) => try.after = try.before
          /\ k < Len(trace)
          /\ IF trace[k + 1].ev = "try"
             THEN /\ trace[k + 1].alt = try.alt + 1
                  /\ trace[k + 1].env = try.env
                  /\ trace[k + 1].before = try.after
                  /\ trace[k + 1].value = try.value
             ELSE /\ trace[k + 1].ev = "exit" /\ trace[k + 1].k = "Abort"
                  /\ trace[k + 1].e.t = "Match"
                  /\ try.alt = Len(trace[k + 1].e.alts)
                  /\ status = "abort"
                  /\ locals = try.env

\* `match Opt.At(1, Opt.Nil) { Opt.At(q, Opt.Some(a)) => 0, Opt.At(b, Opt.Nil)
\* => q }` has run with q bound to 5 before it: the first alternative
\* failed after its first field matched, and q is still the 5.
PartlyMatchedLeftNoBinding ==
    /\ status = "done"
    /\ IsI32(result) /\ IntAt(result) = 5
    /\ "b" \in DOMAIN locals /\ "a" \notin DOMAIN locals
    /\ \E k \in FailedTries :
          /\ trace[k].alt = 1
          /\ trace[k].pat = PAt(PVar("q"), PSome(PVar("a")))
          /\ trace[k + 1].ev = "try" /\ trace[k + 1].ok

\* The names of the types whose tag_range the run has computed: those of
\* the upper-case identifiers evaluated and of the constructor patterns
\* tried as an alternative.
RangedTypes ==
    {trace[k].e.ty : k \in {i \in DOMAIN trace : trace[i].ev = "eval"
                                                   /\ trace[i].e.t = "UpperVar"}}
    \cup {trace[k].pat.type_ : k \in {i \in DOMAIN trace : trace[i].ev = "try"
                                                             /\ trace[i].pat.p = "Constr"}}

\* C26: tag_range of every declared type the run has computed it for did
\* not wrap below zero and has first <= last.
TagRangeOrdered ==
    \A ty \in RangedTypes \cap DOMAIN pgm.ty_cons :
       /\ ~tag_range(pgm.ty_cons[ty]).overflow
       /\ tag_range(pgm.ty_cons[ty]).first <= tag_range(pgm.ty_cons[ty]).last

\* `match 1 { I32(..) => 1, _ => 2 }` has run in a build without overflow
\* checks: tag_range of I32 wrapped to (0, 2^WordBits - 1).
I32RangeWrapped ==
    /\ status = "done"
    /\ ~debug
    /\ MainBody = MatchType("I32")
    /\ "I32" \in RangedTypes
    /\ tag_range(pgm.ty_cons["I32"]).overflow
    /\ tag_range(pgm.ty_cons["I32"]).last = WordMod - 1
    /\ IntAt(result) = 2

\* The assignments to a field whose object expression has come to a value.
FieldOpAssigns ==
    {k \in DOMAIN trace : trace[k].ev = "assign" /\ trace[k].lhs.t = "FieldSelect"}
\* Where the evaluation of the object expression of assignment k began.
ObjectEvalOf(k) ==
    LET evals == {j \in 1..(k - 1) : /\ trace[j].ev = "eval"
                                     /\ trace[j].e = trace[k].lhs.object
                                     /\ trace[j].d = trace[k].d}
    IN IF evals = {} THEN 0 ELSE CHOOSE j \in evals : \A i \in evals : i <= j
\* Where assignment k was done, 0 when it was not.
AssignedOf(k) ==
    LET dones == {n \in (k + 1)..Len(trace) : /\ trace[n].ev = "assigned"
                                              /\ trace[n].d = trace[k].d}
    IN IF dones = {} THEN 0 ELSE CHOOSE n \in dones : \A i \in dones : n <= i
\* The integer of the I32 at a in heap h.
IntIn(h, a) == AsI32(HeapGet(h, a + 1))
\* The sum or difference assignment k is to store, in the width of an I32.
OpResult(k) ==
    LET field == IntIn(trace[k].hp, HeapGet(trace[k].hp, FieldAddr(k)))
        rhs == IntIn(trace[k].hp, trace[k].val)
    IN AsI32(IF trace[k].op = "PlusEq" THEN field + rhs ELSE field - rhs)

\* C27: in `obj.f op rhs` the evaluation of obj begins right after rhs has
\* come to its value and ends right before the field is looked at; for
\* `+=` and `-=` of an I32 field the word stored is an I32 holding the
\* field's integer in the heap as evaluating rhs and obj left it, plus or
\* minus the integer of rhs; and the value of the statement is the value
\* of rhs.
FieldOpAssignOrder ==
    \A k \in FieldOpAssigns :
       LET j == ObjectEvalOf(k)
           n == AssignedOf(k)
       IN /\ j > 1
          /\ trace[j - 1].ev = "exit"
          /\ trace[j - 1].k = "Val"
          /\ trace[j - 1].v = trace[k].val
          /\ trace[j - 1].d = trace[k].d
          /\ trace[k - 1].ev = "exit"
          /\ trace[k - 1].e = trace[k].lhs.object
          /\ trace[k - 1].k = "Val"
          /\ trace[k - 1].v = trace[k].object
          /\ (n # 0) =>
                /\ trace[k].lhs.field \in Range(FieldNamesAt(k))
                /\ (/\ trace[k].op \in {"PlusEq", "MinusEq"}
                    /\ HeapGet(trace[k].hp, HeapGet(trace[k].hp, FieldAddr(k))) = I32_TYPE_TAG
                    /\ HeapGet(trace[k].hp, trace[k].val) = I32_TYPE_TAG)
                   => LET stored == HeapGet(trace[n].hp, FieldAddr(k))
                      IN /\ HeapGet(trace[n].hp, stored) = I32_TYPE_TAG
                         /\ IntIn(trace[n].hp, stored) = OpResult(k)
                         /\ stored >= trace[k].hp.hp
                /\ (n = Len(trace) /\ status = "run") => return_value = trace[k].val
                /\ (/\ n + 2 <= Len(trace)
                    /\ trace[n + 1].ev = "leave"
                    /\ trace[n + 2].ev = "exit")
                   => trace[n + 2].k = "Val" /\ trace[n + 2].v = trace[k].val

\* `(match 0 { _ => { p.x = 20; p } }).x += match 0 { _ => { p.x = 10; 5 } }`
\* was done: p.x is 25, and the statement gave the 5 of its right-hand
\* side.
RhsThenObjectThenField ==
    /\ status = "run"
    /\ pc = 3
    /\ MainBody[2] = SAssign(EFieldSelect(SetPx(20, EVar("p")), "x"), "PlusEq",
                             SetPx(10, EInt(5)))
    /\ "p" \in DOMAIN locals
    /\ IntIn(heap, HeapGet(heap, locals["p"] + 1)) = 25
    /\ IntIn(heap, return_value) = 5
====
